---- MODULE Spec2Model ----
(***************************************************************************)
(* Scoundrel (scoundrel_rs): the rule and turn-resolution engine of        *)
(* src/src/game.rs with the card model of src/src/cards.rs and the deck of *)
(* src/src/deck.rs.                                                        *)
(*                                                                         *)
(* The Game struct is modelled as the record G built from the variables;   *)
(* every method of Game is an operator from a Game record (and its         *)
(* arguments) to the Game record the method leaves behind.                 *)
(* Option<T> is a sequence: None is << >> and Some(x) is << x >>.          *)
(***************************************************************************)
EXTENDS Integers, Sequences, FiniteSets, TLC

VARIABLES
    phase,                  \* Game.phase
    player,                 \* Game.player: [hp, max_hp, weapon]
    deck,                   \* Game.deck.cards, the top of the deck is the last element
    room,                   \* Game.room: [0..3 -> Option<Card>]
    selected,               \* Game.selected
    choices_this_turn,      \* Game.choices_this_turn
    avoided_last_turn,      \* Game.avoided_last_turn
    potion_used_this_turn,  \* Game.potion_used_this_turn
    discard,                \* Game.discard
    log,                    \* Game.log
    score,                  \* Game.score: Option<i32>
    last_card_potion_value, \* Game.last_card_potion_value: Option<u8>
    name_input,             \* Game.name_input, a sequence of characters
    player_name,            \* Game.player_name, a sequence of characters
    history,                \* Game.history
    leaderboard,            \* Game.leaderboard
    new_rank_pos,           \* Game.new_rank_pos: Option<usize>
    room_number,            \* Game.room_number
    cards,                  \* Deck::scoundrel_deck / shuffle: the Vec under construction
    build_pc                \* Deck::scoundrel_deck / shuffle: position in the construction

gameVars == << phase, player, deck, room, selected, choices_this_turn,
               avoided_last_turn, potion_used_this_turn, discard, log, score,
               last_card_potion_value, name_input, player_name, history,
               leaderboard, new_rank_pos, room_number >>
deckVars == << cards, build_pc >>
vars == << gameVars, deckVars >>

(***************************************************************************)
(* Option<T>                                                               *)
(***************************************************************************)
None == << >>
Some(x) == << x >>
IsSome(o) == Len(o) = 1
IsNone(o) == Len(o) = 0
Unwrap(o) == o[1]

(***************************************************************************)
(* cards.rs                                                                *)
(***************************************************************************)
Suits == {"Clubs", "Diamonds", "Hearts", "Spades"}

Card(s, r) == [suit |-> s, rank |-> r]

is_monster(c) == c.suit \in {"Clubs", "Spades"}

monster_value(c) ==
    IF c.rank = 1 THEN 14
    ELSE IF c.rank \in 2..13 THEN c.rank
    ELSE 0

(***************************************************************************)
(* deck.rs                                                                 *)
(***************************************************************************)
\* for v in lo..=hi { cards.push(Card::new(suit, Rank::new(v))) }
RankSweep(s, lo, hi) == [i \in 1..(hi - lo + 1) |-> Card(s, lo + i - 1)]

\* Deck::scoundrel_deck: the suits in the order of the loops and the ranks
\* each loop sweeps (Clubs and Spades 1..=13, Diamonds and Hearts 2..=10)
BuildOrder == << "Clubs", "Spades", "Diamonds", "Hearts" >>

\* faulty variant of LoopRanks: the red suits are swept from the ace
LoopRanksFromAce(s) ==
    IF s \in {"Clubs", "Spades"} THEN [lo |-> 1, hi |-> 13] ELSE [lo |-> 1, hi |-> 10]

LoopRanks(s) ==
    IF s \in {"Clubs", "Spades"} THEN [lo |-> 1, hi |-> 13] ELSE [lo |-> 2, hi |-> 10]

Sweep(s) == RankSweep(s, LoopRanks(s).lo, LoopRanks(s).hi)

\* Deck::scoundrel_deck
scoundrel_deck ==
    Sweep(BuildOrder[1]) \o Sweep(BuildOrder[2]) \o Sweep(BuildOrder[3]) \o Sweep(BuildOrder[4])

\* Vec::pop: the card drawn is the last element
\* faulty variant of draw_rest: the card drawn stays on the deck
draw_rest_keeps(d) == d

draw_card(d) == d[Len(d)]
draw_rest(d) == SubSeq(d, 1, Len(d) - 1)

\* faulty variant of push_bottom: the card is put where draw takes the next one
push_top(d, c) == Append(d, c)

\* Vec::insert(0, card)
push_bottom(d, c) == << c >> \o d

IsPermutationOf(a, b) ==
    /\ Len(a) = Len(b)
    /\ \A c \in {a[i] : i \in 1..Len(a)} \cup {b[i] : i \in 1..Len(b)} :
          Cardinality({i \in 1..Len(a) : a[i] = c})
              = Cardinality({i \in 1..Len(b) : b[i] = c})

(***************************************************************************)
(* game.rs: Player, WeaponState                                            *)
(***************************************************************************)
MaxHp == 20

\* Player::new
NewPlayer == [hp |-> MaxHp, max_hp |-> MaxHp, weapon |-> None]

\* WeaponState::new
NewWeapon(value) == [value |-> value, last_monster |-> None, stack |-> << >>]

\* faulty variant of can_use_on: the last kill is not looked at
can_use_on_any(w, mval) == TRUE

\* WeaponState::can_use_on
can_use_on(w, mval) ==
    IF IsNone(w.last_monster) THEN TRUE ELSE mval <= Unwrap(w.last_monster)

(***************************************************************************)
(* game.rs: the leaderboard                                                *)
(***************************************************************************)
RECURSIVE SortDescUnstable(_)
\* faulty variant of SortDesc: an element is put before the elements already
\* placed that have its score
SortDescUnstable(s) ==
    IF Len(s) = 0 THEN << >>
    ELSE LET front == SortDescUnstable(SubSeq(s, 1, Len(s) - 1))
             e == s[Len(s)]
             k == Cardinality({i \in 1..Len(front) : front[i].score > e.score})
         IN  SubSeq(front, 1, k) \o << e >> \o SubSeq(front, k + 1, Len(front))

RECURSIVE SortDesc(_)
\* Vec::sort_by(|a, b| b.score.cmp(&a.score)): a stable sort, descending by
\* score; computed as an insertion sort that puts each element after the
\* elements already placed whose score is at least its own.
SortDesc(s) ==
    IF Len(s) = 0 THEN << >>
    ELSE LET front == SortDesc(SubSeq(s, 1, Len(s) - 1))
             e == s[Len(s)]
             k == Cardinality({i \in 1..Len(front) : front[i].score >= e.score})
         IN  SubSeq(front, 1, k) \o << e >> \o SubSeq(front, k + 1, Len(front))

\* iter().enumerate().find(|(_, e)| ...).map(|(i, _)| i): the 0-based index of
\* the first entry with this name, score and won flag
FindEntry(lb, name, sc, won) ==
    LET hits == {i \in 1..Len(lb) :
                    lb[i].name = name /\ lb[i].score = sc /\ lb[i].won = won}
    IN  IF hits = {} THEN None
        ELSE Some((CHOOSE i \in hits : \A j \in hits : i <= j) - 1)

\* Game::push_score_and_rank; ts is the value now_ts() returns
push_score_and_rank(g, won, ts) ==
    LET sc == IF IsSome(g.score) THEN Unwrap(g.score) ELSE 0
        entry == [name |-> g.player_name, score |-> sc, won |-> won, ts |-> ts]
        sorted == SortDesc(Append(g.leaderboard, entry))
    IN  [g EXCEPT !.leaderboard = sorted,
                  !.new_rank_pos = FindEntry(sorted, g.player_name, sc, won)]

(***************************************************************************)
(* game.rs: the end of a run                                               *)
(***************************************************************************)
\* faulty variant of finish_victory: the bonus is given whenever the last card
\* was a potion, at full hp or not
finish_victory_any_hp(g, ts) ==
    LET sc == IF IsSome(g.last_card_potion_value)
              THEN g.player.hp + Unwrap(g.last_card_potion_value)
              ELSE g.player.hp
    IN  push_score_and_rank(
            [g EXCEPT !.phase = "GameOver",
                      !.score = Some(sc),
                      !.log = Append(@, << "You clear the dungeon. Final score", sc >>)],
            TRUE, ts)

\* Game::finish_victory
finish_victory(g, ts) ==
    LET sc == IF g.player.hp = g.player.max_hp /\ IsSome(g.last_card_potion_value)
              THEN g.player.hp + Unwrap(g.last_card_potion_value)
              ELSE g.player.hp
    IN  push_score_and_rank(
            [g EXCEPT !.phase = "GameOver",
                      !.score = Some(sc),
                      !.log = Append(@, << "You clear the dungeon. Final score", sc >>)],
            TRUE, ts)

RECURSIVE MonsterSum(_)
\* for c in ... { if c.is_monster() { penalty += c.monster_value() } }
MonsterSum(s) ==
    IF Len(s) = 0 THEN 0
    ELSE (IF is_monster(s[1]) THEN monster_value(s[1]) ELSE 0)
            + MonsterSum(SubSeq(s, 2, Len(s)))

\* self.room.iter().flatten(): the cards of the occupied slots, in slot order
RoomCards(rm) == rm[0] \o rm[1] \o rm[2] \o rm[3]

\* faulty variant of finish_death: the monsters in the room are not counted
finish_death_deck_only(g, ts) ==
    LET penalty == MonsterSum(g.deck)
        sc == g.player.hp - penalty
    IN  push_score_and_rank(
            [g EXCEPT !.phase = "GameOver",
                      !.score = Some(sc),
                      !.log = Append(@, << "You fall... Final score", sc >>)],
            FALSE, ts)

\* faulty variant of finish_death: the penalty is added instead of subtracted
finish_death_adds_penalty(g, ts) ==
    LET penalty == MonsterSum(g.deck) + MonsterSum(RoomCards(g.room))
        sc == g.player.hp + penalty
    IN  push_score_and_rank(
            [g EXCEPT !.phase = "GameOver",
                      !.score = Some(sc),
                      !.log = Append(@, << "You fall... Final score", sc >>)],
            FALSE, ts)

\* Game::finish_death
finish_death(g, ts) ==
    LET penalty == MonsterSum(g.deck) + MonsterSum(RoomCards(g.room))
        sc == g.player.hp - penalty
    IN  push_score_and_rank(
            [g EXCEPT !.phase = "GameOver",
                      !.score = Some(sc),
                      !.log = Append(@, << "You fall... Final score", sc >>)],
            FALSE, ts)

(***************************************************************************)
(* game.rs: the room                                                       *)
(***************************************************************************)
\* Game::visible_count
visible_count(g) == Cardinality({i \in 0..3 : IsSome(g.room[i])})

\* faulty variant of RefillSlot: a card is drawn into the slot whether it is
\* empty or not
RefillSlotOverwrites(g, slot) ==
    IF Len(g.deck) > 0
    THEN [g EXCEPT !.room[slot] = Some(draw_card(g.deck)),
                   !.deck = draw_rest(g.deck)]
    ELSE g

\* faulty variant of RefillSlot: the card put in the slot is read from the
\* deck but not removed from it
RefillSlotPeeks(g, slot) ==
    IF IsNone(g.room[slot]) /\ Len(g.deck) > 0
    THEN [g EXCEPT !.room[slot] = Some(draw_card(g.deck))]
    ELSE g

\* one iteration of the loop of refill_room
RefillSlot(g, slot) ==
    IF IsNone(g.room[slot]) /\ Len(g.deck) > 0
    THEN [g EXCEPT !.room[slot] = Some(draw_card(g.deck)),
                   !.deck = draw_rest(g.deck)]
    ELSE g

\* faulty variant of ResetSelection: the cursor always goes to the first
\* occupied slot
ResetSelectionToFirst(g) ==
    LET occupied == {i \in 0..3 : IsSome(g.room[i])}
    IN  IF occupied /= {}
        THEN [g EXCEPT !.selected = CHOOSE i \in occupied : \A j \in occupied : i <= j]
        ELSE g

\* the selection reset of refill_room
ResetSelection(g) ==
    LET occupied == {i \in 0..3 : IsSome(g.room[i])}
    IN  IF IsNone(g.room[g.selected]) /\ occupied /= {}
        THEN [g EXCEPT !.selected = CHOOSE i \in occupied : \A j \in occupied : i <= j]
        ELSE g

\* faulty variant of refill_room: the run is never declared won
refill_room_no_victory(g, ts) ==
    ResetSelection(RefillSlot(RefillSlot(RefillSlot(RefillSlot(g, 0), 1), 2), 3))

\* faulty variant of refill_room: the last slot is not refilled
refill_room_three_slots(g, ts) ==
    LET g1 == ResetSelection(RefillSlot(RefillSlot(RefillSlot(g, 0), 1), 2))
    IN  IF Len(g1.deck) = 0 /\ visible_count(g1) = 0
        THEN finish_victory(g1, ts)
        ELSE g1

\* Game::refill_room
refill_room(g, ts) ==
    LET g1 == ResetSelection(RefillSlot(RefillSlot(RefillSlot(RefillSlot(g, 0), 1), 2), 3))
    IN  IF Len(g1.deck) = 0 /\ visible_count(g1) = 0
        THEN finish_victory(g1, ts)
        ELSE g1

\* the room counter step shared by new_run, avoid_room and end_turn
RoomStart(n) == [kind |-> "RoomStart", number |-> n]

\* faulty variant of AdvanceRoom: the room counter also advances when the
\* refill has ended the run
AdvanceRoomAlways(g) ==
    [g EXCEPT !.room_number = @ + 1,
              !.history = Append(@, RoomStart(g.room_number + 1))]

AdvanceRoom(g) ==
    IF g.phase = "Running"
    THEN [g EXCEPT !.room_number = @ + 1,
                   !.history = Append(@, RoomStart(g.room_number + 1))]
    ELSE g

\* faulty variant of end_turn: avoided_last_turn is left as it is
end_turn_keeps_avoided(g, ts) ==
    AdvanceRoom(refill_room(
        [g EXCEPT !.potion_used_this_turn = FALSE,
                  !.choices_this_turn = 0], ts))

\* faulty variant of end_turn: the pick count is carried into the next turn
end_turn_keeps_choices(g, ts) ==
    AdvanceRoom(refill_room(
        [g EXCEPT !.avoided_last_turn = FALSE,
                  !.potion_used_this_turn = FALSE], ts))

\* faulty variant of end_turn: the potion flag is carried into the next turn
end_turn_keeps_potion(g, ts) ==
    AdvanceRoom(refill_room(
        [g EXCEPT !.avoided_last_turn = FALSE,
                  !.choices_this_turn = 0], ts))

\* Game::end_turn
end_turn(g, ts) ==
    AdvanceRoom(refill_room(
        [g EXCEPT !.avoided_last_turn = FALSE,
                  !.potion_used_this_turn = FALSE,
                  !.choices_this_turn = 0], ts))

(***************************************************************************)
(* game.rs: resolving a card                                               *)
(***************************************************************************)
UseModes == {"Default", "Barehand", "Weapon"}

\* faulty variant of ResolvePotion: a discarded potion records no event
ResolvePotionQuietDiscard(g, card) ==
    LET val == monster_value(card)
        before == g.player.hp
        after == IF before + val < g.player.max_hp THEN before + val
                 ELSE g.player.max_hp
        g1 == IF ~g.potion_used_this_turn
              THEN [g EXCEPT
                      !.player.hp = after,
                      !.log = Append(@, << "You drink a potion", val, before, after >>),
                      !.last_card_potion_value = Some(val),
                      !.history = Append(@, [kind |-> "Potion", value |-> val,
                                             hp_before |-> before, hp_after |-> after])]
              ELSE [g EXCEPT
                      !.log = Append(@, << "You already used a potion this turn; this one is discarded." >>)]
    IN  [g1 EXCEPT !.potion_used_this_turn = TRUE,
                   !.discard = Append(@, card)]

\* faulty variant of ResolvePotion: every potion heals
ResolvePotionUncapped(g, card) ==
    LET val == monster_value(card)
        before == g.player.hp
        after == IF before + val < g.player.max_hp THEN before + val
                 ELSE g.player.max_hp
    IN  [g EXCEPT
            !.player.hp = after,
            !.log = Append(@, << "You drink a potion", val, before, after >>),
            !.last_card_potion_value = Some(val),
            !.history = Append(@, [kind |-> "Potion", value |-> val,
                                   hp_before |-> before, hp_after |-> after]),
            !.potion_used_this_turn = TRUE,
            !.discard = Append(@, card)]

\* faulty variant of ResolvePotion: the healing is not capped at max_hp
ResolvePotionOverheals(g, card) ==
    LET val == monster_value(card)
        before == g.player.hp
        after == before + val
        g1 == IF ~g.potion_used_this_turn
              THEN [g EXCEPT
                      !.player.hp = after,
                      !.log = Append(@, << "You drink a potion", val, before, after >>),
                      !.last_card_potion_value = Some(val),
                      !.history = Append(@, [kind |-> "Potion", value |-> val,
                                             hp_before |-> before, hp_after |-> after])]
              ELSE [g EXCEPT
                      !.log = Append(@, << "You already used a potion this turn; this one is discarded." >>),
                      !.history = Append(@, [kind |-> "PotionDiscarded", value |-> val])]
    IN  [g1 EXCEPT !.potion_used_this_turn = TRUE,
                   !.discard = Append(@, card)]

\* resolve_card, Suit::Hearts
ResolvePotion(g, card) ==
    LET val == monster_value(card)
        before == g.player.hp
        after == IF before + val < g.player.max_hp THEN before + val
                 ELSE g.player.max_hp
        g1 == IF ~g.potion_used_this_turn
              THEN [g EXCEPT
                      !.player.hp = after,
                      !.log = Append(@, << "You drink a potion", val, before, after >>),
                      !.last_card_potion_value = Some(val),
                      !.history = Append(@, [kind |-> "Potion", value |-> val,
                                             hp_before |-> before, hp_after |-> after])]
              ELSE [g EXCEPT
                      !.log = Append(@, << "You already used a potion this turn; this one is discarded." >>),
                      !.history = Append(@, [kind |-> "PotionDiscarded", value |-> val])]
    IN  [g1 EXCEPT !.potion_used_this_turn = TRUE,
                   !.discard = Append(@, card)]

\* faulty variant of ResolveWeapon: the old weapon's kill stack is dropped
\* instead of being moved to the discard pile
ResolveWeaponDropsStack(g, card) ==
    LET val == monster_value(card)
        unbound == IF IsSome(g.player.weapon)
                   THEN Append(g.discard, Card("Diamonds", Unwrap(g.player.weapon).value))
                   ELSE g.discard
    IN  [g EXCEPT !.discard = unbound,
                  !.player.weapon = Some(NewWeapon(val)),
                  !.log = Append(@, << "You equip a weapon", val >>),
                  !.history = Append(@, [kind |-> "Weapon", value |-> val])]

\* faulty variant of ResolveWeapon: the kill stack of the old weapon goes to
\* the discard pile and stays on the new weapon too
ResolveWeaponKeepsStack(g, card) ==
    LET val == monster_value(card)
        unbound == IF IsSome(g.player.weapon)
                   THEN LET w == Unwrap(g.player.weapon)
                        IN  g.discard \o << Card("Diamonds", w.value) >> \o w.stack
                   ELSE g.discard
        kept == IF IsSome(g.player.weapon) THEN Unwrap(g.player.weapon).stack ELSE << >>
    IN  [g EXCEPT !.discard = unbound,
                  !.player.weapon = Some([NewWeapon(val) EXCEPT !.stack = kept]),
                  !.log = Append(@, << "You equip a weapon", val >>),
                  !.history = Append(@, [kind |-> "Weapon", value |-> val])]

\* resolve_card, Suit::Diamonds
ResolveWeapon(g, card) ==
    LET val == monster_value(card)
        unbound == IF IsSome(g.player.weapon)
                   THEN LET w == Unwrap(g.player.weapon)
                        IN  g.discard \o << Card("Diamonds", w.value) >> \o w.stack
                   ELSE g.discard
    IN  [g EXCEPT !.discard = unbound,
                  !.player.weapon = Some(NewWeapon(val)),
                  !.log = Append(@, << "You equip a weapon", val >>),
                  !.history = Append(@, [kind |-> "Weapon", value |-> val])]

\* faulty variant of UseWeapon: mode Weapon uses the weapon whenever one is
\* equipped, eligible or not
UseWeaponForced(g, mval, mode) ==
    IF IsSome(g.player.weapon)
    THEN IF mode = "Weapon" THEN TRUE
         ELSE can_use_on(Unwrap(g.player.weapon), mval) /\ mode = "Default"
    ELSE FALSE

\* faulty variant of UseWeapon: only mode Weapon uses the weapon
UseWeaponOnRequest(g, mval, mode) ==
    IF IsSome(g.player.weapon) /\ can_use_on(Unwrap(g.player.weapon), mval)
    THEN mode = "Weapon"
    ELSE FALSE

\* resolve_card, Suit::Clubs | Suit::Spades: the choice of use_weapon
UseWeapon(g, mval, mode) ==
    IF IsSome(g.player.weapon) /\ can_use_on(Unwrap(g.player.weapon), mval)
    THEN mode \in {"Default", "Weapon"}
    ELSE FALSE

Fight(mval, with, dmg) ==
    [kind |-> "Fight", monster |-> mval, with_weapon |-> with, damage_taken |-> dmg]

\* faulty variant of FightWithWeapon: last_monster is recorded only when the
\* monster hits back
FightWithWeaponNoDamageNoRecord(g, card) ==
    LET mval == monster_value(card)
        w == Unwrap(g.player.weapon)
        dmg == IF mval - w.value > 0 THEN mval - w.value ELSE 0
        before == g.player.hp
    IN  IF dmg > 0
        THEN [g EXCEPT
                !.player.hp = before - dmg,
                !.log = Append(@, << "You strike. Monster hits back",
                                     w.value, mval, dmg, before, before - dmg >>),
                !.history = Append(@, Fight(mval, Some(w.value), dmg)),
                !.player.weapon = Some([w EXCEPT !.stack = Append(@, card),
                                                 !.last_monster = Some(mval)])]
        ELSE [g EXCEPT
                !.log = Append(@, << "You strike. Monster falls", w.value, mval >>),
                !.history = Append(@, Fight(mval, Some(w.value), 0)),
                !.player.weapon = Some([w EXCEPT !.stack = Append(@, card)])]

\* resolve_card, Suit::Clubs | Suit::Spades, if use_weapon
FightWithWeapon(g, card) ==
    LET mval == monster_value(card)
        w == Unwrap(g.player.weapon)
        dmg == IF mval - w.value > 0 THEN mval - w.value ELSE 0
        before == g.player.hp
        g1 == IF dmg > 0
              THEN [g EXCEPT
                      !.player.hp = before - dmg,
                      !.log = Append(@, << "You strike. Monster hits back",
                                           w.value, mval, dmg, before, before - dmg >>),
                      !.history = Append(@, Fight(mval, Some(w.value), dmg))]
              ELSE [g EXCEPT
                      !.log = Append(@, << "You strike. Monster falls", w.value, mval >>),
                      !.history = Append(@, Fight(mval, Some(w.value), 0))]
    IN  [g1 EXCEPT !.player.weapon =
                      Some([w EXCEPT !.stack = Append(@, card),
                                     !.last_monster = Some(mval)])]

\* faulty variant of FightBarehanded: the monster is not put on the discard
\* pile
FightBarehandedKeepsCard(g, card) ==
    LET mval == monster_value(card)
        before == g.player.hp
    IN  [g EXCEPT !.player.hp = before - mval,
                  !.log = Append(@, << "You fight barehanded. Monster hits you",
                                       mval, mval, before, before - mval >>),
                  !.history = Append(@, Fight(mval, None, mval))]

\* resolve_card, Suit::Clubs | Suit::Spades, else
FightBarehanded(g, card) ==
    LET mval == monster_value(card)
        before == g.player.hp
    IN  [g EXCEPT !.player.hp = before - mval,
                  !.log = Append(@, << "You fight barehanded. Monster hits you",
                                       mval, mval, before, before - mval >>),
                  !.discard = Append(@, card),
                  !.history = Append(@, Fight(mval, None, mval))]

\* faulty variant of TrackLastCard: the value is never cleared
TrackLastCardKeeps(g, card) == g

\* resolve_card: the last-card tracking that follows the match on the suit
TrackLastCard(g, card) ==
    IF card.suit = "Hearts" THEN g
    ELSE [g EXCEPT !.last_card_potion_value = None]

\* Game::resolve_card
resolve_card(g, card, mode) ==
    LET g1 == CASE card.suit = "Hearts" -> ResolvePotion(g, card)
                []  card.suit = "Diamonds" -> ResolveWeapon(g, card)
                []  OTHER ->
                        IF UseWeapon(g, monster_value(card), mode)
                        THEN FightWithWeapon(g, card)
                        ELSE FightBarehanded(g, card)
    IN  TrackLastCard(g1, card)

(***************************************************************************)
(* game.rs: the operations of a turn                                       *)
(***************************************************************************)
PickLimit == 3

\* faulty variant of CountPick: the turn ends only when the room is empty
CountPickUntilEmpty(g, ts) ==
    LET g1 == [g EXCEPT !.choices_this_turn = @ + 1]
    IN  IF visible_count(g1) = 0 THEN end_turn(g1, ts) ELSE g1

\* take_selected: the pick count and the decision to end the turn
CountPick(g, ts) ==
    LET g1 == [g EXCEPT !.choices_this_turn = @ + 1]
    IN  IF visible_count(g1) <= 1 THEN end_turn(g1, ts)
        ELSE IF g1.choices_this_turn >= PickLimit THEN end_turn(g1, ts)
        ELSE g1

\* faulty variant of take_selected: the pick count is not looked at before
\* the take
take_selected_no_limit(g, mode, ts) ==
    IF g.phase /= "Running" THEN g
    ELSE IF IsNone(g.room[g.selected]) THEN g
    ELSE LET card == Unwrap(g.room[g.selected])
             g1 == resolve_card([g EXCEPT !.room[g.selected] = None], card, mode)
         IN  IF g1.player.hp <= 0 THEN finish_death(g1, ts)
             ELSE CountPick(g1, ts)

\* faulty variant of take_selected: the run goes on at hp 0
take_selected_dies_below_zero(g, mode, ts) ==
    IF g.phase /= "Running" THEN g
    ELSE IF g.choices_this_turn >= PickLimit /\ visible_count(g) >= 2
    THEN end_turn([g EXCEPT !.log =
                      Append(@, << "You've already taken 3 cards. Ending turn." >>)], ts)
    ELSE IF IsNone(g.room[g.selected]) THEN g
    ELSE LET card == Unwrap(g.room[g.selected])
             g1 == resolve_card([g EXCEPT !.room[g.selected] = None], card, mode)
         IN  IF g1.player.hp < 0 THEN finish_death(g1, ts)
             ELSE CountPick(g1, ts)

\* faulty variant of take_selected: a take on an empty slot counts as a pick
take_selected_counts_empty(g, mode, ts) ==
    IF g.phase /= "Running" THEN g
    ELSE IF g.choices_this_turn >= PickLimit /\ visible_count(g) >= 2
    THEN end_turn([g EXCEPT !.log =
                      Append(@, << "You've already taken 3 cards. Ending turn." >>)], ts)
    ELSE IF IsNone(g.room[g.selected]) THEN CountPick(g, ts)
    ELSE LET card == Unwrap(g.room[g.selected])
             g1 == resolve_card([g EXCEPT !.room[g.selected] = None], card, mode)
         IN  IF g1.player.hp <= 0 THEN finish_death(g1, ts)
             ELSE CountPick(g1, ts)

\* Game::take_selected
take_selected(g, mode, ts) ==
    IF g.phase /= "Running" THEN g
    ELSE IF g.choices_this_turn >= PickLimit /\ visible_count(g) >= 2
    THEN end_turn([g EXCEPT !.log =
                      Append(@, << "You've already taken 3 cards. Ending turn." >>)], ts)
    ELSE IF IsNone(g.room[g.selected]) THEN g
    ELSE LET card == Unwrap(g.room[g.selected])
             g1 == resolve_card([g EXCEPT !.room[g.selected] = None], card, mode)
         IN  IF g1.player.hp <= 0 THEN finish_death(g1, ts)
             ELSE CountPick(g1, ts)

\* faulty variant of ScoopSlot: the card goes to the discard pile
ScoopSlotToDiscard(g, i) ==
    IF IsSome(g.room[i])
    THEN [g EXCEPT !.discard = Append(@, Unwrap(g.room[i])),
                   !.room[i] = None]
    ELSE g

\* avoid_room: for i in 0..4 { if let Some(card) = self.room[i].take() { push_bottom } }
ScoopSlot(g, i) ==
    IF IsSome(g.room[i])
    THEN [g EXCEPT !.deck = push_bottom(g.deck, Unwrap(g.room[i])),
                   !.room[i] = None]
    ELSE g

\* faulty variant of avoid_room: a room of fewer than 4 cards can be avoided
avoid_room_any_room(g, ts) ==
    IF g.phase /= "Running" THEN g
    ELSE IF g.avoided_last_turn
    THEN [g EXCEPT !.log = Append(@, << "You cannot avoid two rooms in a row." >>)]
    ELSE LET g1 == ScoopSlot(ScoopSlot(ScoopSlot(ScoopSlot(g, 0), 1), 2), 3)
             g2 == [g1 EXCEPT
                      !.avoided_last_turn = TRUE,
                      !.potion_used_this_turn = FALSE,
                      !.choices_this_turn = 0,
                      !.log = Append(@, << "You avoid the room, slipping past the dangers." >>),
                      !.history = Append(@, [kind |-> "Avoid"])]
         IN  AdvanceRoom(refill_room(g2, ts))

\* faulty variant of avoid_room: the phase is not looked at
avoid_room_any_phase(g, ts) ==
    IF g.avoided_last_turn
    THEN [g EXCEPT !.log = Append(@, << "You cannot avoid two rooms in a row." >>)]
    ELSE IF visible_count(g) < 4
    THEN [g EXCEPT !.log = Append(@, << "You may only avoid when 4 cards are visible." >>)]
    ELSE LET g1 == ScoopSlot(ScoopSlot(ScoopSlot(ScoopSlot(g, 0), 1), 2), 3)
             g2 == [g1 EXCEPT
                      !.avoided_last_turn = TRUE,
                      !.potion_used_this_turn = FALSE,
                      !.choices_this_turn = 0,
                      !.log = Append(@, << "You avoid the room, slipping past the dangers." >>),
                      !.history = Append(@, [kind |-> "Avoid"])]
         IN  AdvanceRoom(refill_room(g2, ts))

\* faulty variant of avoid_room: a rejected call says nothing
avoid_room_silent(g, ts) ==
    IF g.phase /= "Running" THEN g
    ELSE IF g.avoided_last_turn THEN g
    ELSE IF visible_count(g) < 4 THEN g
    ELSE LET g1 == ScoopSlot(ScoopSlot(ScoopSlot(ScoopSlot(g, 0), 1), 2), 3)
             g2 == [g1 EXCEPT
                      !.avoided_last_turn = TRUE,
                      !.potion_used_this_turn = FALSE,
                      !.choices_this_turn = 0,
                      !.log = Append(@, << "You avoid the room, slipping past the dangers." >>),
                      !.history = Append(@, [kind |-> "Avoid"])]
         IN  AdvanceRoom(refill_room(g2, ts))

\* faulty variant of avoid_room: avoided_last_turn is not set
avoid_room_unflagged(g, ts) ==
    IF g.phase /= "Running" THEN g
    ELSE IF g.avoided_last_turn
    THEN [g EXCEPT !.log = Append(@, << "You cannot avoid two rooms in a row." >>)]
    ELSE IF visible_count(g) < 4
    THEN [g EXCEPT !.log = Append(@, << "You may only avoid when 4 cards are visible." >>)]
    ELSE LET g1 == ScoopSlot(ScoopSlot(ScoopSlot(ScoopSlot(g, 0), 1), 2), 3)
             g2 == [g1 EXCEPT
                      !.potion_used_this_turn = FALSE,
                      !.choices_this_turn = 0,
                      !.log = Append(@, << "You avoid the room, slipping past the dangers." >>),
                      !.history = Append(@, [kind |-> "Avoid"])]
         IN  AdvanceRoom(refill_room(g2, ts))

\* Game::avoid_room
avoid_room(g, ts) ==
    IF g.phase /= "Running" THEN g
    ELSE IF g.avoided_last_turn
    THEN [g EXCEPT !.log = Append(@, << "You cannot avoid two rooms in a row." >>)]
    ELSE IF visible_count(g) < 4
    THEN [g EXCEPT !.log = Append(@, << "You may only avoid when 4 cards are visible." >>)]
    ELSE LET g1 == ScoopSlot(ScoopSlot(ScoopSlot(ScoopSlot(g, 0), 1), 2), 3)
             g2 == [g1 EXCEPT
                      !.avoided_last_turn = TRUE,
                      !.potion_used_this_turn = FALSE,
                      !.choices_this_turn = 0,
                      !.log = Append(@, << "You avoid the room, slipping past the dangers." >>),
                      !.history = Append(@, [kind |-> "Avoid"])]
         IN  AdvanceRoom(refill_room(g2, ts))

\* Game::move_selection: (selected + dx).clamp(0, 3)
move_selection(g, dx) ==
    IF g.phase /= "Running" THEN g
    ELSE LET ns == g.selected + dx
         IN  [g EXCEPT !.selected = IF ns < 0 THEN 0 ELSE IF ns > 3 THEN 3 ELSE ns]

\* Game::new_run; shuffled is the deck as Deck::shuffle leaves it
\* faulty variant of new_run: the score of the run before is kept
new_run_keeps_score(g, shuffled, ts) ==
    LET g1 == [g EXCEPT !.player = NewPlayer, !.deck = shuffled, !.room = [i \in 0..3 |-> None],
                        !.selected = 0, !.choices_this_turn = 0, !.avoided_last_turn = FALSE,
                        !.potion_used_this_turn = FALSE, !.discard = << >>,
                        !.last_card_potion_value = None, !.history = << >>, !.phase = "Running",
                        !.log = << << "A fresh dungeon awaits..." >> >>]
        g2 == refill_room(g1, ts)
    IN  [g2 EXCEPT !.room_number = 1, !.history = Append(@, RoomStart(1))]

new_run(g, shuffled, ts) ==
    LET g1 == [g EXCEPT
                  !.player = NewPlayer,
                  !.deck = shuffled,
                  !.room = [i \in 0..3 |-> None],
                  !.selected = 0,
                  !.choices_this_turn = 0,
                  !.avoided_last_turn = FALSE,
                  !.potion_used_this_turn = FALSE,
                  !.discard = << >>,
                  !.score = None,
                  !.last_card_potion_value = None,
                  !.history = << >>,
                  !.phase = "Running",
                  !.log = << << "A fresh dungeon awaits..." >> >>]
        g2 == refill_room(g1, ts)
    IN  [g2 EXCEPT !.room_number = 1,
                   !.history = Append(@, RoomStart(1))]

(***************************************************************************)
(* deck.rs: Deck::shuffle.  rand's SliceRandom::shuffle leaves the cards   *)
(* in a uniformly drawn order: the order is an input, a permutation p of   *)
(* the positions.                                                          *)
(***************************************************************************)
IsPerm(p, n) ==
    /\ Len(p) = n
    /\ {p[i] : i \in 1..n} = 1..n

\* Deck::shuffle with the order the random source draws
shuffle(d, p) == [i \in 1..Len(d) |-> d[p[i]]]

IndexIn(d, c) == CHOOSE i \in 1..Len(d) : d[i] = c

C(r) == Card("Clubs", r)
S(r) == Card("Spades", r)
D(r) == Card("Diamonds", r)
H(r) == Card("Hearts", r)

\* The order of one shuffled deck, bottom first: the last card is drawn first.
\* Room 1 is 5-spades 4-spades 5-diamonds 2-clubs, room 2 is 9-diamonds
\* 8-clubs 7-clubs 7-spades, and the cards that follow are drawn 3 by 3.
DungeonOrder ==
    << H(10), C(9), H(6), H(2), H(3), S(8), S(9), S(10),
       H(4), C(10), S(11), H(5), C(11), S(12), H(7), C(12),
       S(13), H(8), C(13), S(1), H(9), C(1), D(10), D(8),
       D(7), D(6), D(4), D(3), D(2), S(2), S(3), C(3),
       C(4), C(5), S(6), C(6), S(7), C(7), C(8), D(9),
       C(2), D(5), S(4), S(5) >>

DungeonPerm == [i \in 1..Len(DungeonOrder) |-> IndexIn(scoundrel_deck, DungeonOrder[i])]

\* the orders the random source draws in the runs explored
RunPerms == {DungeonPerm}

(***************************************************************************)
(* game.rs: Game::new and the name entry                                   *)
(***************************************************************************)
DefaultName == << "S", "c", "o", "u", "n", "d", "r", "e", "l" >>

\* Game::new; loaded is what load_leaderboard returns
NewGame(shuffled, loaded) ==
    [phase |-> "Menu",
     player |-> NewPlayer,
     deck |-> shuffled,
     room |-> [i \in 0..3 |-> None],
     selected |-> 0,
     choices_this_turn |-> 0,
     avoided_last_turn |-> FALSE,
     potion_used_this_turn |-> FALSE,
     discard |-> << >>,
     log |-> << << "Welcome to Scoundrel (terminal)!" >>,
                << "Press 'n' for quick new run or use menu." >> >>,
     score |-> None,
     last_card_potion_value |-> None,
     name_input |-> << >>,
     player_name |-> DefaultName,
     history |-> << >>,
     leaderboard |-> loaded,
     new_rank_pos |-> None,
     room_number |-> 0]

RECURSIVE TrimStart(_)
TrimStart(s) == IF Len(s) > 0 /\ s[1] = " " THEN TrimStart(Tail(s)) ELSE s

RECURSIVE TrimEnd(_)
TrimEnd(s) ==
    IF Len(s) > 0 /\ s[Len(s)] = " " THEN TrimEnd(SubSeq(s, 1, Len(s) - 1)) ELSE s

\* str::trim
Trim(s) == TrimEnd(TrimStart(s))

\* Game::name_input_submit
name_input_submit(g, shuffled, ts) ==
    new_run(IF Len(Trim(g.name_input)) > 0
            THEN [g EXCEPT !.player_name = Trim(g.name_input)]
            ELSE g,
            shuffled, ts)

\* app.rs, KeyCode::Char('n') in the menu; Game::menu_activate, entry 0
enter_name(g) == [g EXCEPT !.phase = "NameEntry", !.name_input = << >>]

\* app.rs, KeyCode::Char('1') .. Char('4')
quick_pick(g, slot, ts) ==
    IF g.phase = "Running"
    THEN take_selected([g EXCEPT !.selected = slot], "Default", ts)
    ELSE g

(***************************************************************************)
(* The state machine                                                       *)
(***************************************************************************)
\* the Game struct held by the variables
G ==
    [phase |-> phase, player |-> player, deck |-> deck, room |-> room,
     selected |-> selected, choices_this_turn |-> choices_this_turn,
     avoided_last_turn |-> avoided_last_turn,
     potion_used_this_turn |-> potion_used_this_turn, discard |-> discard,
     log |-> log, score |-> score,
     last_card_potion_value |-> last_card_potion_value,
     name_input |-> name_input, player_name |-> player_name,
     history |-> history, leaderboard |-> leaderboard,
     new_rank_pos |-> new_rank_pos, room_number |-> room_number]

\* the variables take the fields of g
Becomes(g) ==
    /\ phase' = g.phase
    /\ player' = g.player
    /\ deck' = g.deck
    /\ room' = g.room
    /\ selected' = g.selected
    /\ choices_this_turn' = g.choices_this_turn
    /\ avoided_last_turn' = g.avoided_last_turn
    /\ potion_used_this_turn' = g.potion_used_this_turn
    /\ discard' = g.discard
    /\ log' = g.log
    /\ score' = g.score
    /\ last_card_potion_value' = g.last_card_potion_value
    /\ name_input' = g.name_input
    /\ player_name' = g.player_name
    /\ history' = g.history
    /\ leaderboard' = g.leaderboard
    /\ new_rank_pos' = g.new_rank_pos
    /\ room_number' = g.room_number

\* the variables hold the fields of g
Holds(g) ==
    /\ phase = g.phase
    /\ player = g.player
    /\ deck = g.deck
    /\ room = g.room
    /\ selected = g.selected
    /\ choices_this_turn = g.choices_this_turn
    /\ avoided_last_turn = g.avoided_last_turn
    /\ potion_used_this_turn = g.potion_used_this_turn
    /\ discard = g.discard
    /\ log = g.log
    /\ score = g.score
    /\ last_card_potion_value = g.last_card_potion_value
    /\ name_input = g.name_input
    /\ player_name = g.player_name
    /\ history = g.history
    /\ leaderboard = g.leaderboard
    /\ new_rank_pos = g.new_rank_pos
    /\ room_number = g.room_number

\* the values now_ts() returns
Clock == {1001}

Entry(n, sc, w, t) == [name |-> n, score |-> sc, won |-> w, ts |-> t]

\* the contents of scoundrel_scores.json when the program starts: the board
\* as earlier runs saved it, sorted, each entry with the time of its run
LoadedBoards ==
    { << Entry(<< "A" >>, 30, TRUE, 998), Entry(DefaultName, 30, TRUE, 999),
         Entry(DefaultName, 0, FALSE, 1000) >> }

\* The cards left to resolve
CardsLeft(g) == Len(g.deck) + visible_count(g)

\* The number of cards left from which every choice of the player is explored.
FreeCards == 6

\* Until FreeCards cards are left one line of play is followed: the player
\* avoids room 1 and then presses 1, 2, 3 in each room (app.rs, the quick picks).
InOpening(g) == g.phase = "Running" /\ CardsLeft(g) > FreeCards
OpeningAvoids(g) == g.room_number = 1
OpeningLine(g) == (Len(scoundrel_deck) - CardsLeft(g)) % 3

\* The log lines of the rejected calls
Advisories ==
    { << "You cannot avoid two rooms in a row." >>,
      << "You may only avoid when 4 cards are visible." >>,
      << "You've already taken 3 cards. Ending turn." >> }

RECURSIVE TrailingAdvisories(_)
TrailingAdvisories(l) ==
    IF Len(l) > 0 /\ l[Len(l)] \in Advisories
    THEN 1 + TrailingAdvisories(SubSeq(l, 1, Len(l) - 1))
    ELSE 0

\* The number of rejected calls in a row that are explored; the log grows
\* with every rejected call, and no call is explored after a rejected one.
MaxAdvisory == 1

\* No call of this run has been rejected yet
Unrejected(g) == TrailingAdvisories(g.log) = 0

\* g1 is explored as the outcome of a call if the call was accepted or the
\* rejected calls in a row are at most MaxAdvisory
Explored(g1) == TrailingAdvisories(g1.log) <= MaxAdvisory

Init ==
    /\ \E p \in RunPerms, loaded \in LoadedBoards :
          /\ IsPerm(p, Len(scoundrel_deck))
          /\ Holds(NewGame(shuffle(scoundrel_deck, p), loaded))
    /\ cards = << >>
    /\ build_pc = "idle"

EnterName ==
    /\ phase = "Menu"
    /\ Becomes(enter_name(G))
    /\ UNCHANGED deckVars

NameInputSubmit ==
    /\ phase = "NameEntry"
    /\ \E p \in RunPerms, ts \in Clock :
          /\ IsPerm(p, Len(scoundrel_deck))
          /\ Becomes(name_input_submit(G, shuffle(scoundrel_deck, p), ts))
    /\ UNCHANGED deckVars

\* app.rs, KeyCode::Char('n') while a run is in progress
NewRun ==
    /\ phase = "Running"
    /\ ~InOpening(G)
    /\ \E p \in RunPerms, ts \in Clock :
          /\ IsPerm(p, Len(scoundrel_deck))
          /\ Becomes(new_run(G, shuffle(scoundrel_deck, p), ts))
    /\ UNCHANGED deckVars

MoveSelection ==
    /\ ~InOpening(G)
    /\ Unrejected(G)
    /\ \E dx \in {-1, 1} : Becomes(move_selection(G, dx))
    /\ UNCHANGED deckVars

TakeSelected ==
    /\ ~InOpening(G)
    /\ Unrejected(G)
    /\ \E mode \in UseModes, ts \in Clock : Becomes(take_selected(G, mode, ts))
    /\ UNCHANGED deckVars

QuickPick ==
    /\ phase = "Running"
    /\ Unrejected(G)
    /\ InOpening(G) => ~OpeningAvoids(G)
    /\ \E slot \in 0..3, ts \in Clock :
          /\ InOpening(G) => slot = OpeningLine(G)
          /\ Becomes(quick_pick(G, slot, ts))
    /\ UNCHANGED deckVars

AvoidRoom ==
    /\ InOpening(G) => OpeningAvoids(G)
    /\ \E ts \in Clock :
          /\ Explored(avoid_room(G, ts))
          /\ Becomes(avoid_room(G, ts))
    /\ UNCHANGED deckVars

Next ==
    \/ EnterName
    \/ NameInputSubmit
    \/ NewRun
    \/ MoveSelection
    \/ TakeSelected
    \/ QuickPick
    \/ AvoidRoom

Spec == Init /\ [][Next]_vars

(***************************************************************************)
(* deck.rs: the construction of a deck, one push at a time, and its        *)
(* shuffle.                                                                *)
(***************************************************************************)
\* the orders the random source draws for a deck of n cards: the rotations,
\* the rotations of the reversed deck, and the orders of the runs
Rotation(n, k) == [i \in 1..n |-> ((i + k - 1) % n) + 1]
Reversal(n, k) == [i \in 1..n |-> n + 1 - Rotation(n, k)[i]]
DeckPerms(n) ==
    {Rotation(n, k) : k \in 0..(n - 1)} \cup {Reversal(n, k) : k \in 0..(n - 1)}
        \cup {p \in RunPerms : Len(p) = n}

DeckInit ==
    /\ Holds(NewGame(<< >>, << >>))
    /\ cards = << >>
    /\ build_pc = [stage |-> "push", suit |-> 1, v |-> LoopRanks(BuildOrder[1]).lo]

\* cards.push(Card::new(suit, Rank::new(v))) and the step of the loops
PushCard ==
    /\ build_pc.stage = "push"
    /\ LET s == BuildOrder[build_pc.suit]
       IN  /\ cards' = Append(cards, Card(s, build_pc.v))
           /\ build_pc' =
                 IF build_pc.v < LoopRanks(s).hi
                 THEN [build_pc EXCEPT !.v = @ + 1]
                 ELSE IF build_pc.suit < Len(BuildOrder)
                 THEN [stage |-> "push", suit |-> build_pc.suit + 1,
                       v |-> LoopRanks(BuildOrder[build_pc.suit + 1]).lo]
                 ELSE [build_pc EXCEPT !.stage = "built"]
    /\ UNCHANGED gameVars

\* Deck::shuffle
ShuffleDeck ==
    /\ build_pc.stage = "built"
    /\ \E p \in DeckPerms(Len(cards)) :
          /\ IsPerm(p, Len(cards))
          /\ cards' = shuffle(cards, p)
    /\ build_pc' = [build_pc EXCEPT !.stage = "shuffled"]
    /\ UNCHANGED gameVars

DeckNext ==
    \/ PushCard
    \/ ShuffleDeck

SpecDeck == DeckInit /\ [][DeckNext]_vars

(***************************************************************************)
(* Reading the history                                                     *)
(***************************************************************************)
IsResolution(e) == e.kind \in {"Potion", "PotionDiscarded", "Weapon", "Fight"}
IsHearts(e) == e.kind \in {"Potion", "PotionDiscarded"}
IsWeaponFight(e) == e.kind = "Fight" /\ IsSome(e.with_weapon)

\* the index of the last RoomStart of h, 0 if there is none
LastRoomStart(h) ==
    LET starts == {i \in 1..Len(h) : h[i].kind = "RoomStart"}
    IN  IF starts = {} THEN 0 ELSE CHOOSE i \in starts : \A j \in starts : j <= i

\* the events of the turn in progress
CurrentTurn(h) == SubSeq(h, LastRoomStart(h) + 1, Len(h))

\* the card in the selected slot can be taken by take_selected
CanTake(g) ==
    /\ g.phase = "Running"
    /\ ~(g.choices_this_turn >= PickLimit /\ visible_count(g) >= 2)
    /\ IsSome(g.room[g.selected])

SelectedCard(g) == Unwrap(g.room[g.selected])

\* the game with the cursor on a slot, where move_selection or a quick-pick
\* key puts it
Aim(slot) == [G EXCEPT !.selected = slot]

(***************************************************************************)
(* C1  Pick cap.  No turn takes more than 3 cards: the history never holds *)
(* 4 resolution events in a row without a RoomStart between them.  In a    *)
(* turn that started with 4 occupied slots a first or second take that is  *)
(* survived leaves the turn open, and the third take that is survived ends *)
(* it: the room counter advances, the pick counter is back to 0 and the    *)
(* one untaken card is still in its slot in the next room.                 *)
(***************************************************************************)
C1_NoFourTakes ==
    \A i \in 1..(Len(history) - 3) :
        ~(\A k \in i..(i + 3) : IsResolution(history[k]))

C1_ThirdTakeEnds ==
    \A slot \in 0..3, mode \in UseModes, ts \in Clock :
        LET g1 == take_selected(Aim(slot), mode, ts)
        IN  (CanTake(Aim(slot)) /\ choices_this_turn + visible_count(G) = 4
                /\ g1.player.hp > 0)
            => IF choices_this_turn < 2
               THEN /\ g1.room_number = room_number
                    /\ g1.choices_this_turn = choices_this_turn + 1
                    /\ \A k \in 0..3 : k /= slot => g1.room[k] = room[k]
                    /\ IsNone(g1.room[slot])
               ELSE /\ g1.phase = "Running"
                    /\ g1.room_number = room_number + 1
                    /\ g1.choices_this_turn = 0
                    /\ \A k \in 0..3 :
                          (k /= slot /\ IsSome(room[k])) => g1.room[k] = room[k]

C1_PickCap == C1_NoFourTakes /\ C1_ThirdTakeEnds

\* a room that follows a turn of exactly 3 takes from a full room, the deck
\* used up, holding the carried card and the last card of the deck
C1_Witness ==
    /\ phase = "Running"
    /\ choices_this_turn = 0
    /\ Len(deck) = 0
    /\ visible_count(G) = 2
    /\ Len(history) >= 5
    /\ history[Len(history)].kind = "RoomStart"
    /\ \A k \in 1..3 : IsResolution(history[Len(history) - k])
    /\ history[Len(history) - 4].kind = "RoomStart"

(***************************************************************************)
(* C2  No double avoid.  Between any two Avoid events of the history there *)
(* is a RoomStart that follows a resolution event (a turn ended by a       *)
(* take), and avoid_room called in the room a successful avoid_room has    *)
(* just opened is rejected: it only appends its advisory line.             *)
(***************************************************************************)
C2_TakeBetweenAvoids ==
    \A i, j \in 1..Len(history) :
        (i < j /\ history[i].kind = "Avoid" /\ history[j].kind = "Avoid")
        => \E k \in (i + 2)..(j - 1) :
              history[k].kind = "RoomStart" /\ IsResolution(history[k - 1])

C2_SecondAvoidRejected ==
    \A ts \in Clock :
        (/\ phase = "Running"
         /\ Len(history) >= 2
         /\ history[Len(history) - 1].kind = "Avoid")
        => avoid_room(G, ts) =
              [G EXCEPT !.log = Append(@, << "You cannot avoid two rooms in a row." >>)]

C2_NoDoubleAvoid == C2_TakeBetweenAvoids /\ C2_SecondAvoidRejected

\* a second avoid_room was called right after a successful one and rejected
C2_Witness ==
    /\ phase = "Running"
    /\ Len(history) >= 2
    /\ history[Len(history) - 1].kind = "Avoid"
    /\ log[Len(log)] = << "You cannot avoid two rooms in a row." >>
    /\ Cardinality({i \in 1..Len(history) : history[i].kind = "Avoid"}) = 2

(***************************************************************************)
(* C3  Potion cap.  While a run is in progress the potion flag is set      *)
(* exactly when a Hearts card was taken in the turn in progress (so only a *)
(* turn end or a successful avoid clears it); in every turn the first      *)
(* Hearts event is a Potion and every later one a PotionDiscarded; and     *)
(* taking a Hearts card while the flag is set leaves hp unchanged and is   *)
(* recorded as PotionDiscarded.                                            *)
(***************************************************************************)
C3_FlagIsHeartsTaken ==
    phase = "Running"
    => (potion_used_this_turn
           <=> \E i \in 1..Len(CurrentTurn(history)) : IsHearts(CurrentTurn(history)[i]))

\* the Hearts event at i is the first of its turn
FirstHeartsOfTurn(h, i) ==
    \A k \in 1..(i - 1) :
        IsHearts(h[k]) => \E m \in (k + 1)..(i - 1) : h[m].kind = "RoomStart"

C3_OnePotionPerTurn ==
    \A i \in 1..Len(history) :
        IsHearts(history[i])
        => (history[i].kind = "Potion" <=> FirstHeartsOfTurn(history, i))

C3_LaterHeartsWasted ==
    \A slot \in 0..3, mode \in UseModes, ts \in Clock :
        LET g1 == take_selected(Aim(slot), mode, ts)
        IN  (CanTake(Aim(slot)) /\ SelectedCard(Aim(slot)).suit = "Hearts"
                /\ potion_used_this_turn)
            => /\ g1.player.hp = player.hp
               /\ Len(g1.history) > Len(history)
               /\ g1.history[Len(history) + 1] =
                     [kind |-> "PotionDiscarded",
                      value |-> monster_value(SelectedCard(Aim(slot)))]

C3_PotionCap == C3_FlagIsHeartsTaken /\ C3_OnePotionPerTurn /\ C3_LaterHeartsWasted

\* the 10 of Hearts was taken below full hp in a turn that had already used a
\* potion and was discarded
C3_Witness ==
    /\ player.hp < player.max_hp
    /\ player.hp > 0
    /\ \E i \in 1..Len(history) :
          history[i] = [kind |-> "PotionDiscarded", value |-> 10]

(***************************************************************************)
(* C4  Weapon monotonicity.  Of two weapon fights in a row with the same   *)
(* weapon (no Weapon event between them) the second monster's value is at  *)
(* most the first's; and a monster is fought with the weapon only if the   *)
(* weapon has no kill yet or the monster's value is at most last_monster.  *)
(***************************************************************************)
IsWeaponEvent(e) == e.kind = "Weapon" \/ IsWeaponFight(e)

C4_FightsNonIncreasing ==
    LET trail == SelectSeq(history, IsWeaponEvent)
    IN  \A k \in 1..(Len(trail) - 1) :
            (trail[k].kind = "Fight" /\ trail[k + 1].kind = "Fight")
            => trail[k + 1].monster <= trail[k].monster

C4_WeaponOnlyIfEligible ==
    \A slot \in 0..3, mode \in UseModes, ts \in Clock :
        LET g1 == take_selected(Aim(slot), mode, ts)
        IN  (CanTake(Aim(slot)) /\ is_monster(SelectedCard(Aim(slot)))
                /\ IsWeaponFight(g1.history[Len(history) + 1]))
            => /\ IsSome(player.weapon)
               /\ \/ IsNone(Unwrap(player.weapon).last_monster)
                  \/ monster_value(SelectedCard(Aim(slot)))
                         <= Unwrap(Unwrap(player.weapon).last_monster)

C4_WeaponMonotonic == C4_FightsNonIncreasing /\ C4_WeaponOnlyIfEligible

\* a monster above last_monster is in the selected slot of a player whose
\* weapon has killed a smaller one, after fights of strictly falling values
C4_Witness ==
    /\ CanTake(G)
    /\ ~InOpening(G)
    /\ is_monster(SelectedCard(G))
    /\ IsSome(player.weapon)
    /\ IsSome(Unwrap(player.weapon).last_monster)
    /\ monster_value(SelectedCard(G)) > Unwrap(Unwrap(player.weapon).last_monster)
    /\ Len(Unwrap(player.weapon).stack) >= 2

(***************************************************************************)
(* C5  Death scoring.  After a death the score is the final hp minus the   *)
(* values of the Clubs and Spades cards that are in the deck or in a room  *)
(* slot; no other card counts.  With hp -3, a 7 in the deck and a 5 in the *)
(* room the score is -15.                                                  *)
(***************************************************************************)
RECURSIVE SumValues(_)
SumValues(cs) ==
    IF cs = {} THEN 0
    ELSE LET c == CHOOSE x \in cs : TRUE
         IN  monster_value(c) + SumValues(cs \ {c})

Range(q) == {q[i] : i \in 1..Len(q)}

\* the monsters of the constructed deck that are still to be resolved
ThreatsLeft ==
    {c \in Range(scoundrel_deck) :
        /\ c.suit \in {"Clubs", "Spades"}
        /\ c \in Range(deck) \cup {Unwrap(room[i]) : i \in {k \in 0..3 : IsSome(room[k])}}}

C5_Example ==
    \A ts \in Clock :
        finish_death([G EXCEPT !.player.hp = -3,
                               !.deck = << S(7), H(4), D(3) >>,
                               !.room = [i \in 0..3 |-> IF i = 2 THEN Some(C(5)) ELSE None],
                               !.discard = << S(9) >>], ts).score = Some(-15)

C5_DeathScore ==
    /\ (phase = "GameOver" /\ player.hp <= 0)
       => score = Some(player.hp - SumValues(ThreatsLeft))
    /\ C5_Example

\* a death with monsters left in the deck and in the room, others discarded
\* or on the weapon, and a potion left in the room
C5_Witness ==
    /\ phase = "GameOver"
    /\ player.hp < 0
    /\ \E i \in 1..Len(deck) : is_monster(deck[i])
    /\ \E i \in 0..3 : IsSome(room[i]) /\ is_monster(Unwrap(room[i]))
    /\ \E i \in 0..3 : IsSome(room[i]) /\ ~is_monster(Unwrap(room[i]))
    /\ \E i \in 1..Len(discard) : is_monster(discard[i])
    /\ IsSome(player.weapon) /\ Len(Unwrap(player.weapon).stack) > 0

C7_Rebind ==
    \A slot \in 0..3, mode \in UseModes, ts \in Clock :
        LET g1 == take_selected(Aim(slot), mode, ts)
        IN  (CanTake(Aim(slot)) /\ SelectedCard(Aim(slot)).suit = "Diamonds"
                /\ IsSome(player.weapon))
            => /\ g1.discard =
                     discard \o << [suit |-> "Diamonds", rank |-> Unwrap(player.weapon).value] >>
                         \o Unwrap(player.weapon).stack
               /\ g1.player.weapon =
                     Some([value |-> SelectedCard(Aim(slot)).rank, last_monster |-> None,
                           stack |-> << >>])
               /\ g1.player.hp = player.hp

\* the 5 of Diamonds replaced the 10 of Diamonds, which had kills stacked on it
C7_Witness ==
    /\ IsSome(player.weapon)
    /\ Unwrap(player.weapon) = [value |-> 5, last_monster |-> None, stack |-> << >>]
    /\ \E i \in 1..(Len(discard) - 2) :
          /\ discard[i] = D(10)
          /\ is_monster(discard[i + 1])
          /\ is_monster(discard[i + 2])

(***************************************************************************)
(* The submission of a score: a take that ends the run, and the entry      *)
(* push_score_and_rank builds for it.  No loaded entry has a time of       *)
(* Clock, so the entry is told apart from every earlier one.               *)
(***************************************************************************)
EndsRun(g1) == phase = "Running" /\ g1.phase = "GameOver"

Submitted(g1, ts) == Entry(player_name, Unwrap(g1.score), g1.player.hp > 0, ts)

(***************************************************************************)
(* C8  Rank of the submitted entry.  When a run ends, new_rank_pos is the  *)
(* position the just-submitted entry itself has in the sorted leaderboard  *)
(* (shown 1-based), also when an earlier entry has the same name, score    *)
(* and won flag.                                                           *)
(***************************************************************************)
C8_RankIsOwnPosition ==
    \A slot \in 0..3, mode \in UseModes, ts \in Clock :
        LET g1 == take_selected(Aim(slot), mode, ts)
        IN  EndsRun(g1)
            => \E i \in 1..Len(g1.leaderboard) :
                  /\ g1.leaderboard[i] = Submitted(g1, ts)
                  /\ g1.new_rank_pos = Some(i - 1)

(***************************************************************************)
(* C9  Leaderboard after a submission.  The leaderboard is sorted in       *)
(* descending order of score, is one entry longer than before, and for     *)
(* every score holds the earlier entries of that score in their earlier    *)
(* order, followed by the new entry if that is its score.                  *)
(***************************************************************************)
SortedDesc(lb) == \A i \in 1..(Len(lb) - 1) : lb[i].score >= lb[i + 1].score

WithScore(lb, sc) ==
    LET Has(e) == e.score = sc
    IN  SelectSeq(lb, Has)

C9_BoardAfterSubmission ==
    \A slot \in 0..3, mode \in UseModes, ts \in Clock :
        LET g1 == take_selected(Aim(slot), mode, ts)
            e == Submitted(g1, ts)
        IN  EndsRun(g1)
            => /\ SortedDesc(g1.leaderboard)
               /\ Len(g1.leaderboard) = Len(leaderboard) + 1
               /\ \A sc \in {x.score : x \in Range(leaderboard)} \cup {e.score} :
                     WithScore(g1.leaderboard, sc) =
                         WithScore(leaderboard, sc)
                             \o (IF sc = e.score THEN << e >> ELSE << >>)

C9_SortedAtGameOver == phase = "GameOver" => SortedDesc(leaderboard)

C9_Leaderboard == C9_BoardAfterSubmission /\ C9_SortedAtGameOver

\* a run ended with the score two earlier entries have: the new entry is the
\* third of the board, after them
C9_Witness ==
    /\ phase = "GameOver"
    /\ Len(leaderboard) = 4
    /\ leaderboard[1].ts < leaderboard[2].ts
    /\ leaderboard[3].ts \in Clock
    /\ leaderboard[1].score = leaderboard[3].score
    /\ leaderboard[2].score = leaderboard[3].score

(***************************************************************************)
(* C10  Deck composition.  The deck scoundrel_deck builds is 44 distinct   *)
(* cards: Clubs and Spades of ranks 1..13, Diamonds and Hearts of ranks    *)
(* 2..10, no other card; the shuffled deck holds the same cards.           *)
(***************************************************************************)
OfSuit(d, s) == {i \in 1..Len(d) : d[i].suit = s}
RanksOf(d, s) == {d[i].rank : i \in OfSuit(d, s)}

Composition(d) ==
    /\ Len(d) = 44
    /\ \A i, j \in 1..Len(d) : d[i] = d[j] => i = j
    /\ \A i \in 1..Len(d) : d[i].suit \in Suits
    /\ Cardinality(OfSuit(d, "Clubs")) = 13 /\ RanksOf(d, "Clubs") = 1..13
    /\ Cardinality(OfSuit(d, "Spades")) = 13 /\ RanksOf(d, "Spades") = 1..13
    /\ Cardinality(OfSuit(d, "Diamonds")) = 9 /\ RanksOf(d, "Diamonds") = 2..10
    /\ Cardinality(OfSuit(d, "Hearts")) = 9 /\ RanksOf(d, "Hearts") = 2..10
    /\ Cardinality({i \in 1..Len(d) : is_monster(d[i])}) = 26

C10_DeckOf44 ==
    /\ build_pc.stage \in {"built", "shuffled"} => Composition(cards)
    /\ build_pc.stage = "built" => cards = scoundrel_deck
    /\ build_pc.stage = "shuffled" => IsPermutationOf(cards, scoundrel_deck)

\* a shuffled deck in another order than the built one
C10_Witness ==
    /\ build_pc.stage = "shuffled"
    /\ cards /= scoundrel_deck
    /\ cards[1] /= scoundrel_deck[1]
    /\ Len(cards) = 44

(***************************************************************************)
(* C11  Rejected avoid.  avoid_room called during a run while              *)
(* avoided_last_turn is set, or while fewer than 4 slots are occupied,     *)
(* appends exactly one advisory line to the log and changes nothing else.  *)
(***************************************************************************)
C11_RejectedAvoid ==
    \A ts \in Clock :
        (phase = "Running" /\ (avoided_last_turn \/ visible_count(G) < 4))
        => \E line \in { << "You cannot avoid two rooms in a row." >>,
                         << "You may only avoid when 4 cards are visible." >> } :
              /\ avoid_room(G, ts) = [G EXCEPT !.log = Append(@, line)]
              /\ (line = << "You cannot avoid two rooms in a row." >>) <=> avoided_last_turn

\* an avoid was rejected in a room of fewer than 4 cards, no avoid before it
C11_Witness ==
    /\ phase = "Running"
    /\ ~avoided_last_turn
    /\ visible_count(G) \in 1..3
    /\ Len(log) > 0
    /\ log[Len(log)] = << "You may only avoid when 4 cards are visible." >>

(***************************************************************************)
(* C12  Successful avoid.  avoid_room called during a run with             *)
(* avoided_last_turn clear and 4 slots occupied sets avoided_last_turn,    *)
(* clears choices_this_turn and potion_used_this_turn, appends Avoid and   *)
(* RoomStart(room_number + 1) to the history, adds 1 to room_number,       *)
(* leaves 4 slots occupied, and leaves hp, weapon and discard unchanged.   *)
(***************************************************************************)
C12_SuccessfulAvoid ==
    \A ts \in Clock :
        LET g1 == avoid_room(G, ts)
        IN  (phase = "Running" /\ ~avoided_last_turn /\ visible_count(G) = 4)
            => /\ g1.avoided_last_turn
               /\ g1.choices_this_turn = 0
               /\ ~g1.potion_used_this_turn
               /\ g1.history =
                     history \o << [kind |-> "Avoid"],
                                   [kind |-> "RoomStart", number |-> room_number + 1] >>
               /\ g1.room_number = room_number + 1
               /\ \A i \in 0..3 : IsSome(g1.room[i])
               /\ g1.phase = "Running"
               /\ g1.player = player
               /\ g1.discard = discard

\* the room that follows an avoided room, the second avoid of the run
C12_Witness ==
    /\ phase = "Running"
    /\ avoided_last_turn
    /\ visible_count(G) = 4
    /\ room_number > 2
    /\ Len(history) >= 2
    /\ history[Len(history) - 1] = [kind |-> "Avoid"]
    /\ history[Len(history)] = [kind |-> "RoomStart", number |-> room_number]
    /\ IsSome(player.weapon)
    /\ Len(discard) > 0

(***************************************************************************)
(* C13  Avoided cards are drawn last.  After a successful avoid the cards  *)
(* still to be drawn (the new room, slot 0 first, then the deck from its   *)
(* top) are the cards the deck held before, from its top, followed by the  *)
(* four avoided cards in slot order.  In a run with one avoid, of room 1,  *)
(* the four cards of room 1 lie at the bottom of the deck in that order,   *)
(* and one of them has left the deck only when every other card has.       *)
(***************************************************************************)
RECURSIVE Reverse(_)
Reverse(q) == IF Len(q) = 0 THEN << >> ELSE Append(Reverse(Tail(q)), q[1])

\* the cards still to be drawn, in the order in which refill_room draws them
DrawOrder(g) == RoomCards(g.room) \o Reverse(g.deck)

C13_AvoidedGoLast ==
    \A ts \in Clock :
        (phase = "Running" /\ ~avoided_last_turn /\ visible_count(G) = 4)
        => DrawOrder(avoid_room(G, ts))
              = Reverse(deck) \o << Unwrap(room[0]), Unwrap(room[1]),
                                    Unwrap(room[2]), Unwrap(room[3]) >>

AvoidCount(h) == Cardinality({i \in 1..Len(h) : h[i].kind = "Avoid"})

C13_FirstRoomComesBack ==
    \A p \in RunPerms :
        LET d0 == shuffle(scoundrel_deck, p)
            n == Len(d0)
            \* room 1, slot 3 first: the bottom of the deck after the avoid
            bottom == SubSeq(d0, n - 3, n)
        IN  (phase = "Running" /\ AvoidCount(history) = 1 /\ Len(history) >= 2
                /\ history[2].kind = "Avoid")
            => \/ /\ Len(deck) >= 4
                  /\ SubSeq(deck, 1, 4) = bottom
                  /\ \A i \in 5..Len(deck) : deck[i] \notin Range(bottom)
               \/ /\ Len(deck) < 4
                  /\ deck = SubSeq(bottom, 1, Len(deck))

C13_AvoidedDrawnLast == C13_AvoidedGoLast /\ C13_FirstRoomComesBack

\* the cards of slots 0, 1 and 2 of the avoided room 1 are back in the room,
\* drawn in that order, and the card of slot 3 is the whole deck
C13_Witness ==
    /\ phase = "Running"
    /\ AvoidCount(history) = 1
    /\ deck = << C(2) >>
    /\ \E i, j, k \in 0..3 :
          /\ i < j /\ j < k
          /\ room[i] = Some(S(5)) /\ room[j] = Some(S(4)) /\ room[k] = Some(D(5))

(***************************************************************************)
(* C14  Death is immediate.  If hp <= 0 after the resolution of a take,    *)
(* the same call ends the run in death: phase GameOver, choices_this_turn  *)
(* not counted up, no refill, room_number and the RoomStart events as they *)
(* were, and the entry submitted is a loss, also when the card was the     *)
(* last of the run.                                                        *)
(***************************************************************************)
C14_DeathInTheCall ==
    \A slot \in 0..3, mode \in UseModes, ts \in Clock :
        LET g1 == take_selected(Aim(slot), mode, ts)
        IN  (CanTake(Aim(slot)) /\ g1.player.hp <= 0)
            => /\ g1.phase = "GameOver"
               /\ g1.choices_this_turn = choices_this_turn
               /\ g1.room = [room EXCEPT ![slot] = None]
               /\ g1.deck = deck
               /\ g1.room_number = room_number
               /\ Len(g1.history) = Len(history) + 1
               /\ SubSeq(g1.history, 1, Len(history)) = history
               /\ g1.history[Len(g1.history)].kind = "Fight"
               /\ IsSome(g1.score) /\ Unwrap(g1.score) <= g1.player.hp
               /\ Len(g1.leaderboard) = Len(leaderboard) + 1
               /\ Entry(player_name, Unwrap(g1.score), FALSE, ts) \in Range(g1.leaderboard)

C14_DeadIsLost ==
    (phase = "GameOver" /\ player.hp <= 0)
    => /\ IsSome(score) /\ Unwrap(score) <= 0
       /\ \E i \in 1..Len(leaderboard) :
             leaderboard[i].ts \in Clock /\ ~leaderboard[i].won
       /\ \A i \in 1..Len(leaderboard) :
             leaderboard[i].ts \in Clock => ~leaderboard[i].won

C14_DeathImmediate == C14_DeathInTheCall /\ C14_DeadIsLost

\* the last card of the run killed the player: deck and room are empty and
\* the run is a loss
C14_Witness ==
    /\ phase = "GameOver"
    /\ player.hp <= 0
    /\ Len(deck) = 0
    /\ visible_count(G) = 0
    /\ \E i \in 1..Len(leaderboard) :
          leaderboard[i].ts \in Clock /\ ~leaderboard[i].won

(***************************************************************************)
(* C15  A finished run is fixed.  In phase GameOver take_selected in any   *)
(* mode, avoid_room and move_selection leave every field of the game as it *)
(* is.                                                                     *)
(***************************************************************************)
C15_GameOverFixed ==
    phase = "GameOver"
    => /\ \A mode \in UseModes, ts \in Clock : take_selected(G, mode, ts) = G
       /\ \A ts \in Clock : avoid_room(G, ts) = G
       /\ \A dx \in {-1, 1} : move_selection(G, dx) = G

\* a run ended by death with cards left in the room and in the deck
C15_Witness ==
    /\ phase = "GameOver"
    /\ player.hp <= 0
    /\ visible_count(G) >= 2
    /\ Len(deck) > 0
    /\ ~avoided_last_turn

(***************************************************************************)
(* C16  Rejected operations.  As stated: every rejected operation (avoid   *)
(* twice in a row, take beyond the pick limit, take on an empty slot, take *)
(* or avoid outside a run) leaves the game as it is but for one advisory   *)
(* line added to the log.                                                  *)
(***************************************************************************)
NoOpPlusLine(g, g1) ==
    /\ Len(g1.log) = Len(g.log) + 1
    /\ SubSeq(g1.log, 1, Len(g.log)) = g.log
    /\ [g1 EXCEPT !.log = g.log] = g

C16_RejectedLogsAdvisory ==
    \A slot \in 0..3, mode \in UseModes, ts \in Clock :
        /\ (phase = "Running" /\ avoided_last_turn)
           => NoOpPlusLine(G, avoid_room(G, ts))
        /\ (phase = "Running" /\ choices_this_turn >= PickLimit /\ visible_count(G) >= 2)
           => NoOpPlusLine(G, take_selected(G, mode, ts))
        /\ (phase = "Running" /\ IsNone(room[slot]))
           => NoOpPlusLine(Aim(slot), take_selected(Aim(slot), mode, ts))
        /\ phase /= "Running"
           => /\ NoOpPlusLine(G, take_selected(G, mode, ts))
              /\ NoOpPlusLine(G, avoid_room(G, ts))

(***************************************************************************)
(* C16, as the code has it.  A rejected avoid (twice in a row, or fewer    *)
(* than 4 cards) leaves the game as it is but for one advisory line; a     *)
(* take on an empty slot and a take or an avoid outside a run change       *)
(* nothing and add no line; and no run reaches a take beyond the pick      *)
(* limit (3 picks made and 2 or more cards visible).                       *)
(***************************************************************************)
C16_RejectedIsNoOp ==
    \A slot \in 0..3, mode \in UseModes, ts \in Clock :
        /\ (phase = "Running" /\ (avoided_last_turn \/ visible_count(G) < 4))
           => /\ NoOpPlusLine(G, avoid_room(G, ts))
              /\ avoid_room(G, ts).log[Len(log) + 1] \in Advisories
        /\ (phase = "Running" /\ IsNone(room[slot]))
           => take_selected(Aim(slot), mode, ts) = Aim(slot)
        /\ phase /= "Running"
           => /\ take_selected(G, mode, ts) = G
              /\ avoid_room(G, ts) = G
        /\ phase = "Running"
           => ~(choices_this_turn >= PickLimit /\ visible_count(G) >= 2)

\* an avoid was rejected after a take in the room that followed an avoided
\* room; the slot under the cursor is empty
C16_Witness ==
    /\ phase = "Running"
    /\ avoided_last_turn
    /\ visible_count(G) = 3
    /\ IsNone(room[selected])
    /\ Len(log) > 0
    /\ log[Len(log)] = << "You cannot avoid two rooms in a row." >>

(***************************************************************************)
(* C17  Empty slot.  take_selected called during a run with the cursor on  *)
(* an empty slot changes no field of the game: no log line, no event, no   *)
(* pick counted.                                                           *)
(***************************************************************************)
C17_EmptySlotSilent ==
    \A slot \in 0..3, mode \in UseModes, ts \in Clock :
        LET g1 == take_selected(Aim(slot), mode, ts)
        IN  (phase = "Running" /\ IsNone(room[slot]))
            => /\ g1 = Aim(slot)
               /\ g1.log = log
               /\ g1.history = history
               /\ g1.choices_this_turn = choices_this_turn

\* the cursor is on the slot of the card just taken, in a turn that goes on
C17_Witness ==
    /\ phase = "Running"
    /\ IsNone(room[selected])
    /\ choices_this_turn >= 1
    /\ visible_count(G) >= 2
    /\ ~InOpening(G)
    /\ ~avoided_last_turn

(***************************************************************************)
(* C18  One event per resolution.  The Potion, PotionDiscarded, Weapon and *)
(* Fight events of the history are as many as the cards taken from the     *)
(* room in the run; a take of a card appends exactly one of them, and an   *)
(* avoid, a rejected avoid and a take on an empty slot append none.        *)
(***************************************************************************)
ResolutionCount(h) == Cardinality({i \in 1..Len(h) : IsResolution(h[i])})

\* the cards that have left the deck and the room, and where they are now
CardsTaken == Len(scoundrel_deck) - Len(deck) - visible_count(G)
CardsKept ==
    Len(discard)
        + (IF IsSome(player.weapon) THEN 1 + Len(Unwrap(player.weapon).stack) ELSE 0)

C18_CountIsCardsTaken ==
    phase \in {"Running", "GameOver"}
    => /\ ResolutionCount(history) = CardsTaken
       /\ ResolutionCount(history) = CardsKept

C18_OnePerTake ==
    \A slot \in 0..3, mode \in UseModes, ts \in Clock :
        LET g1 == take_selected(Aim(slot), mode, ts)
        IN  /\ CanTake(Aim(slot))
               => /\ Len(g1.history) > Len(history)
                  /\ SubSeq(g1.history, 1, Len(history)) = history
                  /\ IsResolution(g1.history[Len(history) + 1])
                  /\ \A k \in (Len(history) + 2)..Len(g1.history) :
                        g1.history[k].kind = "RoomStart"
            /\ (phase = "Running" /\ IsNone(room[slot]))
               => g1.history = history
            /\ ResolutionCount(avoid_room(G, ts).history) = ResolutionCount(history)

C18_OneEventPerCard == C18_CountIsCardsTaken /\ C18_OnePerTake

\* a won run: 44 events, of all four kinds
C18_Witness ==
    /\ phase = "GameOver"
    /\ player.hp > 0
    /\ ResolutionCount(history) = 44
    /\ \A kind \in {"Potion", "PotionDiscarded", "Weapon", "Fight"} :
          \E i \in 1..Len(history) : history[i].kind = kind

(***************************************************************************)
(* C19  Winning score, as stated.  When the run is won and the last card   *)
(* resolved was a Hearts card, the score is 20 plus that card's value; in  *)
(* every other won run it is the final hp.                                 *)
(***************************************************************************)
LastResolution(h) ==
    h[CHOOSE i \in 1..Len(h) :
          IsResolution(h[i]) /\ \A k \in (i + 1)..Len(h) : ~IsResolution(h[k])]

C19_TwentyPlusLastPotion ==
    (phase = "GameOver" /\ player.hp > 0)
    => IF IsHearts(LastResolution(history))
       THEN score = Some(20 + LastResolution(history).value)
       ELSE score = Some(player.hp)

(***************************************************************************)
(* C19, as the code has it.  last_card_potion_value is the value of the    *)
(* last potion that was drunk if no Diamonds, Clubs or Spades card was     *)
(* resolved after it (a potion discarded by the potion cap leaves it as it *)
(* is), and is empty otherwise.  A won run scores 20 plus that value only  *)
(* if the value is set and hp is 20; in every other won run, among them a  *)
(* run whose last card was a potion that left hp below 20, the score is    *)
(* the final hp.  A last potion of 10 discarded at hp 20 after a potion of *)
(* 6 was drunk scores 26.                                                  *)
(***************************************************************************)
RECURSIVE LastPotion(_)
LastPotion(h) ==
    IF Len(h) = 0 THEN None
    ELSE LET e == h[Len(h)]
         IN  IF e.kind = "Potion" THEN Some(e.value)
             ELSE IF e.kind \in {"Weapon", "Fight"} THEN None
             ELSE LastPotion(SubSeq(h, 1, Len(h) - 1))

C19_Example ==
    \A mode \in UseModes, ts \in Clock :
        take_selected(
            [G EXCEPT !.phase = "Running",
                      !.player.hp = 20,
                      !.deck = << >>,
                      !.room = [i \in 0..3 |-> IF i = 1 THEN Some(H(10)) ELSE None],
                      !.selected = 1,
                      !.choices_this_turn = 1,
                      !.potion_used_this_turn = TRUE,
                      !.last_card_potion_value = Some(6),
                      !.score = None], mode, ts).score = Some(26)

C19_BonusAtFullHpOnly ==
    /\ phase \in {"Running", "GameOver"} => last_card_potion_value = LastPotion(history)
    /\ (phase = "GameOver" /\ player.hp > 0)
       => IF player.hp = 20 /\ IsSome(LastPotion(history))
          THEN score = Some(20 + Unwrap(LastPotion(history)))
          ELSE score = Some(player.hp)
    /\ C19_Example

\* a won run whose last card was a potion that was drunk and left hp below 20
C19_Witness ==
    /\ phase = "GameOver"
    /\ player.hp > 0
    /\ player.hp < 20
    /\ LastResolution(history).kind = "Potion"
    /\ score = Some(player.hp)

(***************************************************************************)
(* C20  Pick count and turn end.  A take that leaves hp above 0 counts one *)
(* pick; the turn ends (the three per-turn fields reset, the room          *)
(* refilled, the room counter advanced if the run goes on) exactly if at   *)
(* most 1 card is still visible or 3 picks have been made; otherwise       *)
(* nothing is refilled or reset and the run is still in progress.          *)
(***************************************************************************)
Least(a, b) == IF a < b THEN a ELSE b

C20_CountAndEnd ==
    \A slot \in 0..3, mode \in UseModes, ts \in Clock :
        LET g1 == take_selected(Aim(slot), mode, ts)
            vis == visible_count(G) - 1
            ch == choices_this_turn + 1
        IN  (CanTake(Aim(slot)) /\ g1.player.hp > 0)
            => IF vis <= 1 \/ ch >= 3
               THEN /\ ~g1.avoided_last_turn
                    /\ ~g1.potion_used_this_turn
                    /\ g1.choices_this_turn = 0
                    /\ visible_count(g1) = Least(4, vis + Len(deck))
                    /\ Len(g1.deck) = Len(deck) - (visible_count(g1) - vis)
                    /\ IF vis + Len(deck) > 0
                       THEN /\ g1.phase = "Running"
                            /\ g1.room_number = room_number + 1
                            /\ g1.history[Len(g1.history)] =
                                  [kind |-> "RoomStart", number |-> room_number + 1]
                       ELSE /\ g1.phase = "GameOver"
                            /\ g1.room_number = room_number
               ELSE /\ g1.choices_this_turn = ch
                    /\ g1.room = [room EXCEPT ![slot] = None]
                    /\ g1.deck = deck
                    /\ g1.room_number = room_number
                    /\ g1.avoided_last_turn = avoided_last_turn
                    /\ potion_used_this_turn => g1.potion_used_this_turn
                    /\ Len(g1.history) = Len(history) + 1
                    /\ g1.phase = "Running"

\* two picks made in a room of 4, two cards visible, the last card in the deck
C20_Witness ==
    /\ phase = "Running"
    /\ choices_this_turn = 2
    /\ visible_count(G) = 2
    /\ Len(deck) = 1
    /\ ~InOpening(G)

(***************************************************************************)
(* take_selected on game values with any pick count: a started run (room 1 *)
(* drawn) in which some slots have been emptied, the pick counter is       *)
(* anywhere in 0..PickLimit and the deck is as drawn or empty.  The values *)
(* with PickLimit picks counted are values of the Game struct that the     *)
(* operations of a run do not produce; one call of take_selected is made   *)
(* on each.                                                                *)
(***************************************************************************)
PickInit ==
    /\ \E p \in RunPerms, keep \in (SUBSET (0..3)) \ {{}}, n \in 0..PickLimit,
          sel \in 0..3, rest \in BOOLEAN, ts \in Clock :
          LET base == new_run(NewGame(<< >>, << >>), shuffle(scoundrel_deck, p), ts)
          IN  Holds([base EXCEPT
                        !.room = [i \in 0..3 |-> IF i \in keep THEN base.room[i] ELSE None],
                        !.choices_this_turn = n,
                        !.selected = sel,
                        !.deck = IF rest THEN base.deck ELSE << >>])
    /\ cards = << >>
    /\ build_pc = "idle"

PickTake ==
    /\ phase = "Running"
    /\ Len(log) = 1
    /\ \E mode \in UseModes, ts \in Clock : Becomes(take_selected(G, mode, ts))
    /\ UNCHANGED deckVars

PickNext == PickTake

SpecPick == PickInit /\ [][PickNext]_vars

(***************************************************************************)
(* C21  Pick limit.  take_selected called with 3 picks counted and 2 or    *)
(* more cards visible takes no card and resolves nothing (room cards,      *)
(* player and discard as they were, no resolution event), logs its         *)
(* advisory line and ends the turn; with 3 picks counted and at most 1     *)
(* card visible the card under the cursor is taken and resolved.           *)
(***************************************************************************)
C21_PickLimit ==
    \A mode \in UseModes, ts \in Clock :
        LET g1 == take_selected(G, mode, ts)
        IN  /\ (phase = "Running" /\ choices_this_turn >= 3 /\ visible_count(G) >= 2)
               => /\ \A k \in 0..3 : IsSome(room[k]) => g1.room[k] = room[k]
                  /\ Len(g1.deck) + visible_count(g1) = Len(deck) + visible_count(G)
                  /\ g1.player = player
                  /\ g1.discard = discard
                  /\ ResolutionCount(g1.history) = ResolutionCount(history)
                  /\ g1.log = Append(log, << "You've already taken 3 cards. Ending turn." >>)
                  /\ g1.choices_this_turn = 0
                  /\ ~g1.avoided_last_turn /\ ~g1.potion_used_this_turn
                  /\ visible_count(g1) = Least(4, visible_count(G) + Len(deck))
                  /\ g1.phase = "Running"
                  /\ g1.room_number = room_number + 1
                  /\ g1.history = Append(history, RoomStart(room_number + 1))
            /\ (phase = "Running" /\ choices_this_turn >= 3 /\ visible_count(G) <= 1
                   /\ IsSome(room[selected]))
               => /\ Len(g1.history) > Len(history)
                  /\ IsResolution(g1.history[Len(history) + 1])
                  /\ ResolutionCount(g1.history) = ResolutionCount(history) + 1
                  /\ Len(g1.deck) + visible_count(g1) = Len(deck) + visible_count(G) - 1

\* a turn force-ended by a take at the pick limit: the cursor was on a card,
\* which is still in its slot, and the room was refilled to 4
C21_Witness ==
    /\ phase = "Running"
    /\ log[Len(log)] = << "You've already taken 3 cards. Ending turn." >>
    /\ choices_this_turn = 0
    /\ room_number = 2
    /\ visible_count(G) = 4
    /\ ResolutionCount(history) = 0
    /\ \E p \in RunPerms :
          room[selected] = Some(shuffle(scoundrel_deck, p)[Len(scoundrel_deck) - selected])

(***************************************************************************)
(* C22  Refill keeps the cards in place.  refill_room draws only into      *)
(* empty slots: a card that is in a slot before the refill is in the same  *)
(* slot after it, and the empty slots receive the top cards of the deck in *)
(* slot order.  A card left in the room at the end of a turn is in the     *)
(* same slot in the next room.                                             *)
(***************************************************************************)
\* the empty slots of a room, in increasing order
RECURSIVE EmptySlotsFrom(_, _)
EmptySlotsFrom(rm, k) ==
    IF k > 3 THEN << >>
    ELSE (IF IsNone(rm[k]) THEN << k >> ELSE << >>) \o EmptySlotsFrom(rm, k + 1)

C22_RefillDrawsIntoEmpty ==
    \A ts \in Clock :
        LET g1 == refill_room(G, ts)
            empty == EmptySlotsFrom(room, 0)
            drawn == Least(Len(empty), Len(deck))
        IN  phase = "Running"
            => /\ \A k \in 0..3 : IsSome(room[k]) => g1.room[k] = room[k]
               /\ \A i \in 1..Len(empty) :
                     g1.room[empty[i]] = IF i <= drawn THEN Some(Reverse(deck)[i]) ELSE None
               /\ Reverse(g1.deck) = SubSeq(Reverse(deck), drawn + 1, Len(deck))

C22_CarriedKeepsSlot ==
    \A slot \in 0..3, mode \in UseModes, ts \in Clock :
        LET g1 == take_selected(Aim(slot), mode, ts)
        IN  CanTake(Aim(slot))
            => \A k \in (0..3) \ {slot} : IsSome(room[k]) => g1.room[k] = room[k]

C22_RefillKeepsCards == C22_RefillDrawsIntoEmpty /\ C22_CarriedKeepsSlot

\* the start of a late room: the 7 of Spades, drawn into slot 3 of the second
\* room, is still in slot 3, next to three cards just drawn
C22_Witness ==
    /\ phase = "Running"
    /\ choices_this_turn = 0
    /\ room_number >= 10
    /\ history[Len(history)] = RoomStart(room_number)
    /\ room[3] = Some(S(7))
    /\ visible_count(G) = 4

(***************************************************************************)
(* C23  Victory.  The run is won in the very operation whose refill finds  *)
(* the deck empty and all four slots empty: a take that is survived ends   *)
(* the run as won if and only if it took the last card of deck and room,   *)
(* and an avoid never ends the run.  In every Running state deck and room  *)
(* are not both empty, and a won run has neither deck nor room cards.      *)
(***************************************************************************)
C23_RunningHasCards == phase = "Running" => CardsLeft(G) > 0

C23_WonHasNone ==
    (phase = "GameOver" /\ player.hp > 0)
    => /\ CardsLeft(G) = 0
       /\ IsSome(score)
       /\ log[Len(log)] = << "You clear the dungeon. Final score", Unwrap(score) >>

C23_VictoryInTheCall ==
    \A slot \in 0..3, mode \in UseModes, ts \in Clock :
        LET g0 == Aim(slot)
            g1 == take_selected(g0, mode, ts)
            g2 == avoid_room(G, ts)
        IN  /\ (CanTake(g0) /\ g1.player.hp > 0)
               => /\ g1.phase = (IF CardsLeft(g0) = 1 THEN "GameOver" ELSE "Running")
                  /\ CardsLeft(g1) = CardsLeft(g0) - 1
            /\ phase = "Running" => g2.phase = "Running" /\ CardsLeft(g2) = CardsLeft(G)

C23_Victory == C23_RunningHasCards /\ C23_WonHasNone /\ C23_VictoryInTheCall

\* a run won below full hp by fighting the last card of the dungeon
C23_Witness ==
    /\ phase = "GameOver"
    /\ player.hp > 0
    /\ player.hp < player.max_hp
    /\ Len(deck) = 0
    /\ visible_count(G) = 0
    /\ history[Len(history)].kind = "Fight"

(***************************************************************************)
(* C24  Cursor after a refill.  After a refill that leaves a card in the   *)
(* room the selected slot is occupied: a cursor on a slot that is empty    *)
(* after the drawing goes to the occupied slot of lowest index, a cursor   *)
(* on an occupied slot stays.  selected is always one of 0..3.             *)
(***************************************************************************)
C24_SelectedInRange == selected \in 0..3

C24_RefillResetsCursor ==
    \A slot \in 0..3, ts \in Clock :
        LET g1 == refill_room(Aim(slot), ts)
            occupied == {i \in 0..3 : IsSome(g1.room[i])}
        IN  (phase = "Running" /\ occupied /= {})
            => /\ IsSome(g1.room[g1.selected])
               /\ g1.selected = IF slot \in occupied THEN slot
                                ELSE CHOOSE i \in occupied : \A j \in occupied : i <= j

C24_NewRoomCursorOnCard ==
    \A slot \in 0..3, mode \in UseModes, ts \in Clock :
        LET g1 == take_selected(Aim(slot), mode, ts)
            g2 == avoid_room(Aim(slot), ts)
        IN  /\ (CanTake(Aim(slot)) /\ g1.phase = "Running" /\ g1.room_number > room_number)
               => /\ IsSome(g1.room[g1.selected])
                  /\ g1.selected \in 0..3
                  /\ IsSome(g1.room[slot]) => g1.selected = slot
                  /\ IsNone(g1.room[slot])
                        => \A j \in 0..3 : IsSome(g1.room[j]) => g1.selected <= j
            /\ (phase = "Running" /\ g2.room_number > room_number)
               => g2.selected = slot /\ IsSome(g2.room[slot])

C24_Selection == C24_SelectedInRange /\ C24_RefillResetsCursor /\ C24_NewRoomCursorOnCard

\* a room begun with the deck exhausted: the slot of the card just taken (slot
\* 0) stayed empty and the cursor went to the first card left
C24_Witness ==
    /\ phase = "Running"
    /\ choices_this_turn = 0
    /\ history[Len(history)] = RoomStart(room_number)
    /\ Len(deck) = 0
    /\ IsNone(room[0])
    /\ selected > 0
    /\ IsSome(room[selected])
    /\ \A j \in 0..3 : IsSome(room[j]) => selected <= j

(***************************************************************************)
(* C25  A room is full while the deck lasts.  In a Running state in which  *)
(* no card has been taken this turn (choices_this_turn = 0), a slot is     *)
(* empty only if the deck is empty.                                        *)
(***************************************************************************)
C25_FullOrDeckEmpty ==
    (phase = "Running" /\ choices_this_turn = 0)
    => ((\E k \in 0..3 : IsNone(room[k])) => Len(deck) = 0)

\* a room begun with two or three cards because the deck ran out
C25_Witness ==
    /\ phase = "Running"
    /\ choices_this_turn = 0
    /\ Len(deck) = 0
    /\ visible_count(G) \in 2..3

(***************************************************************************)
(* Resolving the card under the cursor                                     *)
(***************************************************************************)
\* the game as take_selected has it right after its call of resolve_card:
\* the card taken out of slot `slot` and resolved with `mode`
Resolved(slot, mode) ==
    resolve_card([Aim(slot) EXCEPT !.room[slot] = None], SelectedCard(Aim(slot)), mode)

(***************************************************************************)
(* C26  Potions.  A Hearts card taken when no potion has been used this    *)
(* turn sets hp to min(hp + value, max_hp), also when that heals nothing,  *)
(* and marks the potion as used.  Every Hearts card resolved, drunk or     *)
(* not, is pushed on the discard pile, and the weapon is left as it was.   *)
(***************************************************************************)
C26_Potion ==
    \A slot \in 0..3, mode \in UseModes, ts \in Clock :
        LET g0 == Aim(slot)
            card == SelectedCard(g0)
            val == monster_value(card)
            r == Resolved(slot, mode)
            g1 == take_selected(g0, mode, ts)
        IN  (CanTake(g0) /\ card.suit = "Hearts")
            => /\ r.potion_used_this_turn
               /\ r.discard = Append(discard, card)
               /\ r.player.weapon = player.weapon
               /\ r.player.max_hp = player.max_hp
               /\ ~potion_used_this_turn
                     => /\ r.player.hp = Least(player.hp + val, player.max_hp)
                        /\ r.history = Append(history,
                                [kind |-> "Potion", value |-> val, hp_before |-> player.hp,
                                 hp_after |-> Least(player.hp + val, player.max_hp)])
               /\ potion_used_this_turn => r.player.hp = player.hp
               /\ g1.player = r.player
               /\ g1.discard = r.discard

\* a potion of 3 has been drunk at full hp (20 to 20) and a potion has been
\* drunk below it; the discard pile ends with the Hearts card just drunk
C26_Witness ==
    /\ \E i \in 1..Len(history) :
          /\ history[i].kind = "Potion"
          /\ history[i].hp_before = MaxHp
          /\ history[i].hp_after = MaxHp
    /\ history[Len(history)].kind = "Potion"
    /\ history[Len(history)].hp_after > history[Len(history)].hp_before
    /\ Len(discard) > 0
    /\ discard[Len(discard)] = H(history[Len(history)].value)

(***************************************************************************)
(* C27  The last-potion value.  last_card_potion_value is set only if the  *)
(* card resolved most recently was a Hearts card: resolving a Clubs,       *)
(* Spades or Diamonds card clears it, a potion that is drunk sets it to    *)
(* its value, and a potion wasted by the one-per-turn cap leaves it as it  *)
(* was.                                                                    *)
(***************************************************************************)
C27_ResolveTracks ==
    \A slot \in 0..3, mode \in UseModes, ts \in Clock :
        LET g0 == Aim(slot)
            card == SelectedCard(g0)
            r == Resolved(slot, mode)
            g1 == take_selected(g0, mode, ts)
        IN  CanTake(g0)
            => /\ r.last_card_potion_value =
                     (IF card.suit /= "Hearts" THEN None
                      ELSE IF ~potion_used_this_turn THEN Some(monster_value(card))
                      ELSE last_card_potion_value)
               /\ g1.last_card_potion_value = r.last_card_potion_value

C27_SetOnlyAfterHearts ==
    (phase \in {"Running", "GameOver"} /\ IsSome(last_card_potion_value))
    => /\ ResolutionCount(history) > 0
       /\ IsHearts(LastResolution(history))
       /\ last_card_potion_value = LastPotion(history)

C27_LastPotionValue == C27_ResolveTracks /\ C27_SetOnlyAfterHearts

\* the value of a potion drunk is still set after a second potion, of another
\* value, was wasted in the same turn
C27_Witness ==
    /\ phase = "Running"
    /\ IsSome(last_card_potion_value)
    /\ LastResolution(history).kind = "PotionDiscarded"
    /\ LastResolution(history).value /= Unwrap(last_card_potion_value)

(***************************************************************************)
(* C28  Weapon or bare hands.  A monster is fought with the weapon if and  *)
(* only if a weapon is equipped, the weapon can be used on the monster     *)
(* (no last monster, or monster value <= last monster) and the mode is     *)
(* Default or Weapon.  In every other case the fight is bare-handed, also  *)
(* in mode Weapon when the weapon cannot be used.                          *)
(***************************************************************************)
C28_WeaponChoice ==
    \A slot \in 0..3, mode \in UseModes :
        LET g0 == Aim(slot)
            card == SelectedCard(g0)
            mval == monster_value(card)
            r == Resolved(slot, mode)
            ev == r.history[Len(r.history)]
            eligible == /\ IsSome(player.weapon)
                        /\ \/ IsNone(Unwrap(player.weapon).last_monster)
                           \/ mval <= Unwrap(Unwrap(player.weapon).last_monster)
        IN  (CanTake(g0) /\ is_monster(card))
            => /\ Len(r.history) = Len(history) + 1
               /\ ev.kind = "Fight"
               /\ ev.monster = mval
               /\ IsSome(ev.with_weapon) <=> (eligible /\ mode \in {"Default", "Weapon"})
               /\ IsSome(ev.with_weapon) => ev.with_weapon = Some(Unwrap(player.weapon).value)
               /\ IsNone(ev.with_weapon) => ev.damage_taken = mval

\* a monster fought bare-handed with a weapon in hand that could not be used
\* on it: the weapon's last monster is smaller
C28_Witness ==
    /\ Len(history) > 0
    /\ history[Len(history)].kind = "Fight"
    /\ IsNone(history[Len(history)].with_weapon)
    /\ IsSome(player.weapon)
    /\ IsSome(Unwrap(player.weapon).last_monster)
    /\ history[Len(history)].monster > Unwrap(Unwrap(player.weapon).last_monster)
    /\ ~InOpening(G)

(***************************************************************************)
(* C29  Fight with the weapon.  A monster fought with the weapon costs     *)
(* max(monster value - weapon value, 0) hp, is pushed on the weapon's kill *)
(* stack and becomes the weapon's last_monster, also when it does no       *)
(* damage.  The weapon's value and the discard pile are left as they were. *)
(***************************************************************************)
C29_WeaponFight ==
    \A slot \in 0..3, mode \in {"Default", "Weapon"}, ts \in Clock :
        LET g0 == Aim(slot)
            card == SelectedCard(g0)
            mval == monster_value(card)
            w == Unwrap(player.weapon)
            dmg == IF mval > w.value THEN mval - w.value ELSE 0
            r == Resolved(slot, mode)
            g1 == take_selected(g0, mode, ts)
        IN  (/\ CanTake(g0)
             /\ is_monster(card)
             /\ IsSome(player.weapon)
             /\ IsNone(w.last_monster) \/ mval <= Unwrap(w.last_monster))
            => /\ r.player.hp = player.hp - dmg
               /\ r.player.max_hp = player.max_hp
               /\ r.player.weapon = Some([value |-> w.value,
                                          last_monster |-> Some(mval),
                                          stack |-> Append(w.stack, card)])
               /\ r.discard = discard
               /\ r.history = Append(history, Fight(mval, Some(w.value), dmg))
               /\ g1.player = r.player
               /\ g1.discard = r.discard

\* a monster has just fallen to the weapon without hitting back and is the
\* weapon's last monster and the top of its stack; an earlier monster fought
\* with the same weapon did hit back
C29_Witness ==
    /\ Len(history) > 0
    /\ IsWeaponFight(history[Len(history)])
    /\ history[Len(history)].damage_taken = 0
    /\ IsSome(player.weapon)
    /\ Unwrap(player.weapon).last_monster = Some(history[Len(history)].monster)
    /\ LET st == Unwrap(player.weapon).stack
       IN  /\ Len(st) >= 2
           /\ monster_value(st[Len(st)]) = history[Len(history)].monster
           /\ monster_value(st[1]) > Unwrap(player.weapon).value

(***************************************************************************)
(* C30  Bare-handed fight.  A monster fought bare-handed costs its full    *)
(* value in hp and is pushed on the discard pile; the weapon (value,       *)
(* last_monster, stack) is left as it was.                                 *)
(***************************************************************************)
C30_BarehandFight ==
    \A slot \in 0..3, mode \in UseModes, ts \in Clock :
        LET g0 == Aim(slot)
            card == SelectedCard(g0)
            mval == monster_value(card)
            usable == /\ IsSome(player.weapon)
                      /\ \/ IsNone(Unwrap(player.weapon).last_monster)
                         \/ mval <= Unwrap(Unwrap(player.weapon).last_monster)
            r == Resolved(slot, mode)
            g1 == take_selected(g0, mode, ts)
        IN  (CanTake(g0) /\ is_monster(card) /\ (mode = "Barehand" \/ ~usable))
            => /\ r.player.hp = player.hp - mval
               /\ r.player.max_hp = player.max_hp
               /\ r.player.weapon = player.weapon
               /\ r.discard = Append(discard, card)
               /\ r.history = Append(history, Fight(mval, None, mval))
               /\ g1.player = r.player
               /\ g1.discard = r.discard

\* a monster fought bare-handed by choice and survived: the weapon in hand,
\* with monsters on its stack, could have been used on it; the monster is on
\* top of the discard pile
C30_Witness ==
    /\ phase = "Running"
    /\ ResolutionCount(history) > 0
    /\ LET ev == LastResolution(history)
       IN  /\ ev.kind = "Fight"
           /\ IsNone(ev.with_weapon)
           /\ IsSome(player.weapon)
           /\ IsSome(Unwrap(player.weapon).last_monster)
           /\ ev.monster <= Unwrap(Unwrap(player.weapon).last_monster)
           /\ Len(Unwrap(player.weapon).stack) > 0
           /\ Len(discard) > 0
           /\ is_monster(discard[Len(discard)])
           /\ monster_value(discard[Len(discard)]) = ev.monster

(***************************************************************************)
(* C31  Room numbering.  Within a run the RoomStart events of the history  *)
(* are numbered 1, 2, 3, ... in order, and there are room_number of them.  *)
(* room_number grows by exactly 1 at a turn end or a successful avoid that *)
(* leaves the run Running, and is unchanged by every other operation, the  *)
(* turn end that ends the run among them.                                  *)
(***************************************************************************)
IsRoomStart(e) == e.kind = "RoomStart"

C31_NumberedInOrder ==
    phase \in {"Running", "GameOver"}
    => LET starts == SelectSeq(history, IsRoomStart)
       IN  /\ Len(starts) = room_number
           /\ \A i \in 1..Len(starts) : starts[i] = RoomStart(i)

C31_CounterSteps ==
    \A slot \in 0..3, mode \in UseModes, ts \in Clock, dx \in {-1, 1} :
        LET g0 == Aim(slot)
            g1 == take_selected(g0, mode, ts)
            g2 == avoid_room(G, ts)
            turnEnds == visible_count(g0) - 1 <= 1 \/ choices_this_turn + 1 >= PickLimit
        IN  /\ CanTake(g0)
               => g1.room_number =
                     (IF g1.phase = "Running" /\ turnEnds THEN room_number + 1
                      ELSE room_number)
            /\ (phase = "Running" /\ ~CanTake(g0)) => g1.room_number = room_number
            /\ phase = "Running"
               => g2.room_number =
                     (IF ~avoided_last_turn /\ visible_count(G) = 4 THEN room_number + 1
                      ELSE room_number)
            /\ move_selection(G, dx).room_number = room_number
            /\ phase = "GameOver"
               => g1.room_number = room_number /\ g2.room_number = room_number

C31_RoomNumbering == C31_NumberedInOrder /\ C31_CounterSteps

\* a run won in its last room: the take that emptied the dungeon ended the
\* turn and started no further room
C31_Witness ==
    /\ phase = "GameOver"
    /\ player.hp > 0
    /\ room_number >= 14
    /\ ~IsRoomStart(history[Len(history)])
    /\ Len(SelectSeq(history, IsRoomStart)) = room_number

(***************************************************************************)
(* C32  Card conservation.  In every state of a run the cards of the deck, *)
(* the room slots, the discard pile, the equipped weapon (the Diamonds     *)
(* card of its value) and the weapon's kill stack are together the 44      *)
(* cards of the constructed deck, each exactly once.                       *)
(***************************************************************************)
\* the cards a game holds, container by container
WeaponCards(p) ==
    IF IsSome(p.weapon)
    THEN << Card("Diamonds", Unwrap(p.weapon).value) >> \o Unwrap(p.weapon).stack
    ELSE << >>

AllCards(g) == g.deck \o RoomCards(g.room) \o g.discard \o WeaponCards(g.player)

C32_CardsConserved ==
    phase \in {"Running", "GameOver"}
    => /\ Len(AllCards(G)) = Len(scoundrel_deck)
       /\ Range(AllCards(G)) = Range(scoundrel_deck)
       /\ Cardinality(Range(AllCards(G))) = 44

\* cards in every container at once: deck, room, discard pile, a weapon in
\* hand and monsters on its stack
C32_Witness ==
    /\ phase = "Running"
    /\ Len(deck) > 0
    /\ visible_count(G) > 0
    /\ Len(discard) > 0
    /\ IsSome(player.weapon)
    /\ Len(Unwrap(player.weapon).stack) > 0
    /\ Len(AllCards(G)) = 44

(***************************************************************************)
(* C33  Pick count between operations.  choices_this_turn is always 0, 1   *)
(* or 2, and choices_this_turn plus the number of occupied slots is at     *)
(* most 4.  So the forced-turn-end branch of take_selected (3 picks        *)
(* counted and 2 or more cards visible) is entered in no state of a run,   *)
(* and its log line is never written.                                      *)
(***************************************************************************)
C33_PickCountBounded ==
    /\ choices_this_turn \in 0..2
    /\ choices_this_turn + visible_count(G) <= 4
    /\ ~(choices_this_turn >= 3 /\ visible_count(G) >= 2)
    /\ \A i \in 1..Len(log) : log[i] /= << "You've already taken 3 cards. Ending turn." >>

\* two cards taken from a full room, two left: the next take ends the turn
C33_Witness ==
    /\ phase = "Running"
    /\ ~InOpening(G)
    /\ choices_this_turn = 2
    /\ visible_count(G) = 2
    /\ Len(deck) > 0

(***************************************************************************)
(* C34  Avoiding happens at the start of a turn.  Whenever 4 slots are     *)
(* occupied in phase Running, no card has been taken and no potion used    *)
(* this turn, so avoid_room succeeds only at the start of a turn; and a    *)
(* successful avoid_room leaves the run Running.                           *)
(***************************************************************************)
C34_FullRoomIsTurnStart ==
    (phase = "Running" /\ visible_count(G) = 4)
    => choices_this_turn = 0 /\ ~potion_used_this_turn

C34_AvoidKeepsRunning ==
    \A ts \in Clock :
        LET g1 == avoid_room(G, ts)
        IN  (phase = "Running" /\ g1.history /= history)
            => /\ choices_this_turn = 0 /\ ~potion_used_this_turn
               /\ visible_count(G) = 4
               /\ g1.phase = "Running"
               /\ IsNone(g1.score)

C34_AvoidAtTurnStart == C34_FullRoomIsTurnStart /\ C34_AvoidKeepsRunning

\* a room avoided near the end of the dungeon: the four cards went under a
\* deck of at most two and came straight back, and the run goes on
C34_Witness ==
    /\ phase = "Running"
    /\ ~InOpening(G)
    /\ avoided_last_turn
    /\ Len(history) >= 2
    /\ history[Len(history) - 1].kind = "Avoid"
    /\ visible_count(G) = 4
    /\ Len(deck) <= 2

(***************************************************************************)
(* One run, from its first room to GameOver, played by a player who keeps  *)
(* taking cards.  The run starts as name_input_submit starts it.  Until    *)
(* FreeCards cards are left the player takes the slots 0, 1, 2 of each     *)
(* room with the quick-pick keys; from there on every take of a card (any  *)
(* occupied slot, any mode) and every avoid is explored.  The cursor keys  *)
(* are part of the take: Aim(slot) is the game after the moves that bring  *)
(* the cursor to the slot.  Pressing 'n' begins another run and is no step *)
(* of this one.                                                            *)
(***************************************************************************)
AdvisoryCount(l) == Cardinality({i \in 1..Len(l) : l[i] \in Advisories})

RunInit ==
    /\ \E p \in RunPerms, loaded \in LoadedBoards, ts \in Clock :
          Holds(name_input_submit(enter_name(NewGame(shuffle(scoundrel_deck, p), loaded)),
                                  shuffle(scoundrel_deck, p), ts))
    /\ cards = << >>
    /\ build_pc = "idle"

\* a take that finds a card under the cursor
RunTake ==
    /\ phase = "Running"
    /\ \E slot \in 0..3, mode \in UseModes, ts \in Clock :
          /\ IsSome(room[slot])
          /\ InOpening(G) => slot = OpeningLine(G) /\ mode = "Default"
          /\ Becomes(take_selected(Aim(slot), mode, ts))
    /\ UNCHANGED deckVars

\* an avoid, successful or rejected; at most MaxAdvisory calls of a run are
\* rejected
RunAvoid ==
    /\ phase = "Running"
    /\ ~InOpening(G)
    /\ \E ts \in Clock :
          /\ AdvisoryCount(avoid_room(G, ts).log) <= MaxAdvisory
          /\ Becomes(avoid_room(G, ts))
    /\ UNCHANGED deckVars

RunNext ==
    \/ RunTake
    \/ RunAvoid

\* a step that takes a card out of deck and room: of the steps of RunNext, the
\* RunTake steps
TookCard == CardsLeft(G)' < CardsLeft(G)

\* The player keeps taking an occupied slot: a take of a card is not put off
\* for ever.  This is WF_vars(RunTake) written out: RunTake is enabled exactly
\* in phase Running, where the room holds a card, and a step of RunNext is a
\* step of RunTake exactly if it is a TookCard step.
KeepsTaking == []<>(phase /= "Running") \/ []<><<TookCard>>_vars

SpecRun == RunInit /\ [][RunNext]_vars /\ KeepsTaking

(***************************************************************************)
(* C35  Every run terminates.  A successful take lowers the number of      *)
(* cards in deck and room by exactly 1 and no operation raises it, so a    *)
(* run resolves at most 44 cards; successful avoids are at most one per    *)
(* take-triggered turn end (and one before the first); and if the player   *)
(* keeps taking an occupied slot, phase GameOver is eventually reached.    *)
(***************************************************************************)
C35_CardsLeftDecreases ==
    \A slot \in 0..3, mode \in UseModes, ts \in Clock, dx \in {-1, 1} :
        LET g0 == Aim(slot)
            g1 == take_selected(g0, mode, ts)
        IN  /\ CardsLeft(g1) = (IF CanTake(g0) THEN CardsLeft(G) - 1 ELSE CardsLeft(G))
            /\ CardsLeft(avoid_room(G, ts)) = CardsLeft(G)
            /\ CardsLeft(move_selection(G, dx)) = CardsLeft(G)

C35_Bounded ==
    /\ ResolutionCount(history) + CardsLeft(G) = 44
    /\ ResolutionCount(history) <= 44
    /\ 2 * AvoidCount(history) <= room_number

C35_Terminates ==
    /\ [](C35_CardsLeftDecreases /\ C35_Bounded)
    /\ <>(phase = "GameOver")

\* a run played to its last card: 44 cards resolved, an avoid among the
\* operations, none left in deck or room
C35_Witness ==
    /\ phase = "GameOver"
    /\ ResolutionCount(history) = 44
    /\ AvoidCount(history) > 0
    /\ CardsLeft(G) = 0

(***************************************************************************)
(* C36  Hit points and score of a run.  Whenever phase is Running,         *)
(* 1 <= hp <= max_hp = 20 and score is None.  hp exceeds max_hp in no      *)
(* state.  score is set exactly when the run reaches GameOver: a take sets *)
(* it if and only if it ends the run, no other operation of a run sets it, *)
(* and new_run clears it.                                                  *)
(***************************************************************************)
C36_RunningState ==
    /\ phase = "Running"
       => /\ player.hp >= 1
          /\ player.hp <= player.max_hp
          /\ player.max_hp = 20
          /\ IsNone(score)
    /\ player.hp <= player.max_hp
    /\ phase = "GameOver" => IsSome(score)

C36_ScoreSetAtGameOver ==
    \A slot \in 0..3, mode \in UseModes, ts \in Clock, dx \in {-1, 1}, p \in RunPerms :
        LET g1 == take_selected(Aim(slot), mode, ts)
            g2 == avoid_room(G, ts)
            g3 == new_run(G, shuffle(scoundrel_deck, p), ts)
        IN  /\ phase = "Running"
               => /\ IsSome(g1.score) <=> g1.phase = "GameOver"
                  /\ g1.phase = "GameOver" <=> (g1.player.hp <= 0 \/ CardsLeft(g1) = 0)
                  /\ IsNone(g2.score)
                  /\ IsNone(move_selection(G, dx).score)
            /\ phase \in {"GameOver", "NameEntry"}
               => /\ g3.phase = "Running"
                  /\ IsNone(g3.score)
                  /\ g3.player.hp = 20 /\ g3.player.max_hp = 20

C36_HpAndScore == C36_RunningState /\ C36_ScoreSetAtGameOver

\* a run still going on at 2 hp, two monsters fought bare-handed in a row
C36_Witness ==
    /\ phase = "Running"
    /\ player.hp = 2
    /\ IsNone(score)
    /\ history[Len(history)].kind \in {"Fight", "RoomStart"}

(***************************************************************************)
(* The end of a run on game values with any hp.  A take is made in a room  *)
(* that is either the first room of four, with the deck behind it, or the  *)
(* last card of the dungeon; the card under the cursor is one of EndCards, *)
(* hp is anywhere in 1..MaxHp, a weapon is in hand or not, and the last    *)
(* potion value is unset, 2 or 10.                                         *)
(***************************************************************************)
EndCards == { C(1), S(13), C(2), H(2), H(10), D(5) }

EndInit ==
    /\ \E p \in RunPerms, ts \in Clock, h \in 1..MaxHp, c \in EndCards,
          bonus \in {None, Some(2), Some(10)}, last \in BOOLEAN,
          armed \in {None, Some(NewWeapon(2))} :
          LET base == new_run(NewGame(<< >>, << >>), shuffle(scoundrel_deck, p), ts)
          IN  Holds([base EXCEPT
                        !.player.hp = h,
                        !.player.weapon = armed,
                        !.room = [i \in 0..3 |-> IF i = 0 THEN Some(c)
                                                 ELSE IF last THEN None ELSE base.room[i]],
                        !.selected = 0,
                        !.deck = IF last THEN << >> ELSE base.deck,
                        !.last_card_potion_value = bonus])
    /\ cards = << >>
    /\ build_pc = "idle"

EndTake ==
    /\ phase = "Running"
    /\ Len(log) = 1
    /\ \E mode \in UseModes, ts \in Clock : Becomes(take_selected(G, mode, ts))
    /\ UNCHANGED deckVars

EndNext == EndTake

SpecEnd == EndInit /\ [][EndNext]_vars

(***************************************************************************)
(* C37  Score bounds.  A victory score is between 1 and 30: the final hp,  *)
(* in 1..20, plus a bonus of at most 10.  A death score is at most 0, and  *)
(* the final hp of a lost run is at least -13.                             *)
(***************************************************************************)
C37_ScoreBounds ==
    phase = "GameOver"
    => /\ IsSome(score)
       /\ IF player.hp > 0
          THEN /\ player.hp \in 1..20
               /\ Unwrap(score) - player.hp \in 0..10
               /\ Unwrap(score) \in 1..30
          ELSE /\ Unwrap(score) <= 0
               /\ Unwrap(score) <= player.hp
               /\ player.hp >= -13

\* a run lost at 1 hp to an ace fought bare-handed: hp -13, with monsters
\* left in room and deck
C37_Witness ==
    /\ phase = "GameOver"
    /\ player.hp = -13
    /\ IsSome(score)
    /\ Unwrap(score) < -13

(***************************************************************************)
(* ui.rs: the header of the game-over screen                               *)
(***************************************************************************)
\* draw_game_over: let score = game.score.unwrap_or(0); the trophy if
\* score >= 0, the skull otherwise
GameOverHeader(g) ==
    LET sc == IF IsSome(g.score) THEN Unwrap(g.score) ELSE 0
    IN  IF sc >= 0 THEN "trophy" ELSE "skull"

\* the run ended in victory: finish_victory wrote the last log line
WonRun(g) ==
    /\ g.phase = "GameOver"
    /\ g.log[Len(g.log)][1] = "You clear the dungeon. Final score"

(***************************************************************************)
(* C38  Sign of the score.  The final score is >= 0 if and only if the run *)
(* ended in victory, so that the header of the game-over screen, which     *)
(* looks at the sign of the score alone, shows the trophy exactly for the  *)
(* runs that were won.                                                     *)
(***************************************************************************)
C38_ScoreSignIsOutcome ==
    phase = "GameOver"
    => /\ (Unwrap(score) >= 0) <=> WonRun(G)
       /\ (GameOverHeader(G) = "trophy") <=> WonRun(G)

\* a run lost at exactly 0 hp on its last monster: nothing is left to
\* subtract, the score is 0 and the header shows the trophy
C38_Witness ==
    /\ phase = "GameOver"
    /\ ~WonRun(G)
    /\ player.hp = 0
    /\ score = Some(0)
    /\ MonsterSum(deck) + MonsterSum(RoomCards(room)) = 0
    /\ GameOverHeader(G) = "trophy"

(***************************************************************************)
(* C39  Usage modes.  take_selected with mode Default and with mode Weapon *)
(* produce the same game from every state; on a Hearts or a Diamonds card  *)
(* all three modes produce the same game.                                  *)
(***************************************************************************)
C39_ModesAgree ==
    \A slot \in 0..3, ts \in Clock :
        LET g0 == Aim(slot)
            byDefault == take_selected(g0, "Default", ts)
        IN  /\ take_selected(g0, "Weapon", ts) = byDefault
            /\ (CanTake(g0) /\ SelectedCard(g0).suit \in {"Hearts", "Diamonds"})
               => take_selected(g0, "Barehand", ts) = byDefault
            /\ ~CanTake(g0) => take_selected(g0, "Barehand", ts) = byDefault

\* the cursor is on a monster that the weapon in hand can be used on: modes
\* Default and Weapon give the same game, mode Barehand another
C39_Witness ==
    /\ ~InOpening(G)
    /\ CanTake(G)
    /\ is_monster(SelectedCard(G))
    /\ IsSome(player.weapon)
    /\ \A ts \in Clock :
          /\ take_selected(G, "Weapon", ts) = take_selected(G, "Default", ts)
          /\ take_selected(G, "Barehand", ts) /= take_selected(G, "Default", ts)

(***************************************************************************)
(* C40  Weapon state.  Whenever a weapon is equipped, its value is in      *)
(* 2..10, its kill stack holds only Clubs and Spades cards whose values    *)
(* are non-increasing from first to last, and last_monster is None exactly *)
(* when the stack is empty and otherwise the monster value of the last     *)
(* card of the stack.                                                      *)
(***************************************************************************)
C40_WeaponConsistent ==
    IsSome(player.weapon)
    => LET w == Unwrap(player.weapon)
           n == Len(w.stack)
       IN  /\ w.value \in 2..10
           /\ \A i \in 1..n : w.stack[i].suit \in {"Clubs", "Spades"}
           /\ \A i \in 1..(n - 1) :
                 monster_value(w.stack[i]) >= monster_value(w.stack[i + 1])
           /\ IsNone(w.last_monster) <=> n = 0
           /\ n > 0 => w.last_monster = Some(monster_value(w.stack[n]))

\* a weapon with monsters of equal and of falling value on its stack: two
\* aces first, a smaller monster last
C40_Witness ==
    /\ IsSome(player.weapon)
    /\ LET w == Unwrap(player.weapon)
           n == Len(w.stack)
       IN  /\ n >= 3
           /\ monster_value(w.stack[1]) = 14
           /\ monster_value(w.stack[2]) = 14
           /\ monster_value(w.stack[n]) < 14
           /\ w.last_monster = Some(monster_value(w.stack[n]))
====
